---- MODULE Spec2Model ----
(***************************************************************************)
(* Model of astro_aligner: the MainWindow session (main.py), the manual    *)
(* transforms (image_functions.py), the folder load (file_functions.py)    *)
(* and the two batch workers (workers.py).                                 *)
(*                                                                         *)
(* Pixel buffers are modelled by their provenance: a sequence that starts  *)
(* with the loaded file and lists every shift and rotation applied since.  *)
(* Angles are integers in hundredths of a degree.  Indices are 0-based as  *)
(* in the source; image lists are functions over 0..n-1.                   *)
(*                                                                         *)
(* The worker's signals reach the main thread through queued connections:  *)
(* `inbox' is the main thread's queue of posted signal events.             *)
(***************************************************************************)
EXTENDS Integers, Sequences, FiniteSets, TLC

None == "None"
\* an absent 'image_orig' key
NoOrig == << >>
\* anchor_rect_img_coords = None
NoAnchor == [set |-> FALSE]
\* MainWindow.worker = None
NoWorker == [kind |-> "none"]
\* no function call is being looked at
NoCalc == [op |-> "none"]

(* ------------------------------ bounds --------------------------------- *)
\* clicks that edit an image or start a batch, explored in one session
MaxClicks == 2
\* images in the folder that is loaded
NumImages == 2
\* largest frame rate typed into the fps box
MaxFps == 2
\* longest image list handed to a worker that is run on its own
MaxWorkerImages == 3

(* --------------------------- input domains ----------------------------- *)
ImgH == 4
ImgW == 4
\* the folder dialog is cancelled, or a folder is picked: one without images,
\* one with images of one size, one whose last image is smaller
Folders == {"cancelled", "empty", "pics", "mixed"}
Directions == {"Left", "Right", "Up", "Down"}
\* the arrow buttons clicked in a session
ClickedDirections == {"Left", "Down"}
\* a text box content: a number, or something int()/float() rejects
Text(n) == [num |-> TRUE, v |-> n]
BadText == [num |-> FALSE, v |-> 0]
\* contents of the shift text box at the time of a click
ShiftTexts == {BadText, Text(1), Text(ImgW)}
\* contents of the shift text box when a registration is started: also a
\* zero and a negative number
StepTexts == ShiftTexts \cup {Text(0), Text(-1)}
\* contents of the rotation text box at the time of an Apply click
RotTexts == {BadText, Text(0), Text(30)}
\* contents of the fps text box
FpsTexts == {BadText, Text(1)} \cup {Text(f) : f \in 2..MaxFps}
\* contents of the four anchor text boxes
AnchorTexts == { [x |-> 1, y |-> 1, w |-> ImgW - 2, h |-> ImgH - 2],
                 [x |-> 1, y |-> 1, w |-> ImgW, h |-> 1],
                 [x |-> 0, y |-> 0, w |-> 0, h |-> 2] }
\* mouse positions on the reference label where a drag starts and ends
DragStarts == { << 0, 0 >> }
DragEnds == { << ImgW - 1, ImgH - 1 >>, << 2 * ImgW + 3, 2 * ImgH + 3 >> }
\* zoom factors of the view
ZoomFactors == { 1, 2 }
\* the buttons that call start_registration
StartModes == {"all", "current"}
Methods == {"fft", "scan", "scan_rot"}
\* what one estimator call can yield for one target image
EstShifts == { <<0, 0>>, <<1, 1>> }
RotDeltas == {0, 20}
\* where the labels are clicked to pick points for btn_get_rotation
LabelClicks == { << 0, 0 >>, << 1, 0 >>, << 1, 1 >>, << 2, 1 >> }
Outcomes ==
    { [kind |-> "raise"], [kind |-> "none"] }
    \cup { [kind |-> "shift", xoff |-> s[1], yoff |-> s[2]] : s \in EstShifts }
    \cup { [kind |-> "rot", delta |-> d, cv_ok |-> c] : d \in RotDeltas, c \in BOOLEAN }

VARIABLES
    image_data,              \* MainWindow.image_data
    ref_image_idx,           \* MainWindow.ref_image_idx
    current_image_idx,       \* MainWindow.current_image_idx
    anchor_rect_img_coords,  \* MainWindow.anchor_rect_img_coords
    reg_method,              \* which registration radio button is checked
    worker,                  \* MainWindow.worker: None or the worker object
    worker_thread,           \* MainWindow.worker_thread: None, "running", "stopped"
    progress_dialog,         \* MainWindow.progress_dialog: None, "open", "closed"
    ui_enabled,              \* last argument of _set_ui_enabled
    msgbox,                  \* title of the QMessageBox the last slot showed
    inbox,                   \* queued signal events of the main thread
    threads_running,         \* QThreads started and not yet quit
    clicks,                  \* image edits, point picks and batch starts so far
    calc,                    \* a function call made on its own: arguments, result
    checked,                 \* rows of image_list whose check box is checked
    ref_points,              \* MainWindow.ref_points
    current_points,          \* MainWindow.current_points
    setting_ref_points,      \* MainWindow.setting_ref_points
    setting_current_points   \* MainWindow.setting_current_points

vars == << image_data, ref_image_idx, current_image_idx, anchor_rect_img_coords,
           reg_method, worker, worker_thread, progress_dialog, ui_enabled,
           msgbox, inbox, threads_running, clicks, calc, checked,
           ref_points, current_points, setting_ref_points,
           setting_current_points >>

(* ------------------------------ helpers -------------------------------- *)
Len0(f) == Cardinality(DOMAIN f)

Abs(n) == IF n < 0 THEN -n ELSE n

\* the buffer read from file k, of shape h x w
PristineOf(k, h, w) == << <<"load", k, h, w>> >>
Pristine(k) == PristineOf(k, ImgH, ImgW)

\* ndarray.shape[:2] of a buffer; shifts and rotations keep the shape
ShapeOf(buf) == << buf[1][3], buf[1][4] >>

\* np.roll by (dy, dx) followed by the zero fill of the wrapped border
Shifted(buf, dx, dy) == Append(buf, <<"S", dx, dy>>)

\* the rotations a buffer has gone through, in order
RECURSIVE RotationsOf(_)
RotationsOf(buf) ==
    IF buf = << >> THEN << >>
    ELSE LET h == Head(buf)
         IN  (IF h[1] = "R" THEN << h[2] >> ELSE << >>) \o RotationsOf(Tail(buf))

\* cv2.warpAffine about the centre; the size is preserved
Rotated(buf, angle) == Append(buf, <<"R", angle>>)

\* _perform_cv_rotation: the rotated buffer, or None (here << >>) on failure
_perform_cv_rotation(image, angle, cv_ok) ==
    IF image = NoOrig \/ ~cv_ok THEN NoOrig ELSE Rotated(image, angle)

\* variant of Format1f: the text holds every digit of the number
Format1f_Exact(x) == x

\* f"{x:.1f}": hundredths of a degree rounded to a tenth
Format1f(x) ==
    LET r == x % 10 IN IF r < 5 THEN x - r ELSE x - r + 10

ValidIdx(idx, data) == 0 <= idx /\ idx < Len0(data)

(* --------------------------- file_functions ---------------------------- *)
\* the number of readable image files in a folder
FilesIn(folder) ==
    IF folder \in {"pics", "mixed"} THEN NumImages
    ELSE IF folder = "more" THEN NumImages + 1
    ELSE 0

\* the buffer decoded from file k of a folder
FileImage(folder, k) ==
    IF folder = "mixed" /\ k = FilesIn(folder) - 1
    THEN PristineOf(k, ImgH - 2, ImgW - 2)
    ELSE Pristine(k)

\* the entries appended by loadFolder for the readable images of a folder
LoadedImages(folder) ==
    [k \in 0..(FilesIn(folder) - 1) |->
        [name |-> k, image |-> FileImage(folder, k), total_rotation |-> 0,
         image_orig |-> NoOrig]]

(* -------------------------- initial state ------------------------------ *)
Init ==
    /\ image_data = << >>
    /\ ref_image_idx = -1
    /\ current_image_idx = -1
    /\ anchor_rect_img_coords = NoAnchor
    /\ reg_method = "fft"
    /\ worker = NoWorker
    /\ worker_thread = None
    /\ progress_dialog = None
    /\ ui_enabled = TRUE
    /\ msgbox = ""
    /\ inbox = << >>
    /\ threads_running = 0
    /\ clicks = 0
    /\ calc = NoCalc
    /\ checked = {}
    /\ ref_points = << >>
    /\ current_points = << >>
    /\ setting_ref_points = FALSE
    /\ setting_current_points = FALSE

\* a control that _set_ui_enabled disables can be clicked
CanClick == ui_enabled /\ clicks < MaxClicks

threadVars == << worker, worker_thread, progress_dialog, ui_enabled, inbox,
                 threads_running, calc >>

\* the check boxes of the list and the points picked on the two labels
\* the two point selection modes
modeVars == << setting_ref_points, setting_current_points >>

selVars == << checked, ref_points, current_points, modeVars >>

workerVars == << threadVars, selVars >>

(* ------------------------- user interactions --------------------------- *)
\* update_list_widget for a list of names that is not empty: the first item
\* is checked and selected, both point sets are cleared
update_list_widget ==
    /\ checked' = {0}
    /\ ref_image_idx' = 0
    /\ current_image_idx' = 0
    /\ ref_points' = << >>
    /\ current_points' = << >>

\* btn_open: loadFolder, then update_list_widget
loadFolder(folder) ==
    /\ ui_enabled
    /\ UNCHANGED clicks
    /\ IF folder = "cancelled"
       THEN /\ msgbox' = ""
            /\ UNCHANGED << image_data, ref_image_idx, current_image_idx,
                            anchor_rect_img_coords, selVars >>
       ELSE /\ image_data' = LoadedImages(folder)
            /\ anchor_rect_img_coords' = NoAnchor
            /\ IF FilesIn(folder) = 0
               THEN /\ ref_image_idx' = -1
                    /\ current_image_idx' = -1
                    /\ checked' = {}
                    /\ msgbox' = "No Images"
                    /\ UNCHANGED << ref_points, current_points >>
               ELSE /\ update_list_widget
                    /\ msgbox' = ""
    /\ UNCHANGED << reg_method, threadVars, modeVars >>

\* image_list selection: current_item_changed_slot -> item_changed
item_changed(row) ==
    /\ ui_enabled
    /\ ValidIdx(row, image_data)
    /\ UNCHANGED clicks
    /\ current_image_idx' = row
    /\ current_points' = (IF row # current_image_idx THEN << >>
                          ELSE current_points)
    /\ msgbox' = ""
    /\ UNCHANGED << image_data, ref_image_idx, anchor_rect_img_coords,
                    reg_method, threadVars, checked, ref_points, modeVars >>

\* set_reference_item for the item of a row whose box is checked by now
set_reference_item(row) ==
    IF row = ref_image_idx
    THEN /\ checked' = checked \cup {row}
         /\ UNCHANGED << ref_image_idx, ref_points, current_points >>
    ELSE /\ ref_points' = << >>
         /\ current_points' = << >>
         /\ checked' = {row}
         /\ ref_image_idx' = row

\* variant of AfterUncheck: the box stays unchecked
AfterUncheck_Allowed(checked_items, row, count) == checked_items

\* check_state_changed, lines 777-785: the checked rows after the box of row
\* was unchecked and checked_items are those that remain
AfterUncheck(checked_items, row, count) ==
    IF checked_items = {} /\ count > 0 THEN checked_items \cup {row}
    ELSE checked_items

\* image_list check box of a row is clicked: itemChanged -> check_state_changed
check_state_changed(row) ==
    /\ ui_enabled
    /\ ValidIdx(row, image_data)
    /\ UNCHANGED clicks
    /\ IF row \notin checked
       THEN set_reference_item(row)
       ELSE /\ checked' = AfterUncheck(checked \ {row}, row, Len0(image_data))
            /\ UNCHANGED << ref_image_idx, ref_points, current_points >>
    /\ msgbox' = ""
    /\ UNCHANGED << image_data, current_image_idx, anchor_rect_img_coords,
                    reg_method, threadVars, modeVars >>

\* btn_clear_anchor: clear_anchor_area
clear_anchor_area ==
    /\ ui_enabled
    /\ anchor_rect_img_coords.set
    /\ UNCHANGED clicks
    /\ anchor_rect_img_coords' = NoAnchor
    /\ UNCHANGED << image_data, ref_image_idx, current_image_idx, reg_method,
                    msgbox, workerVars >>

\* round(n / d) of Python 3: halves go to the even neighbour
RoundHalfEven(n, d) ==
    LET q == n \div d
        r == n % d
    IN  IF 2 * r < d THEN q
        ELSE IF 2 * r > d THEN q + 1
        ELSE IF q % 2 = 0 THEN q ELSE q + 1

\* one coordinate of map_label_point_to_image_point: the label coordinate is
\* divided by the zoom factor, clamped to [0, size] and rounded
MapCoordinate(label_c, zoom, size) ==
    IF label_c < 0 THEN 0
    ELSE IF label_c > size * zoom THEN size
    ELSE RoundHalfEven(label_c, zoom)

\* map_label_point_to_image_point for the reference pixmap of shape (h, w)
map_label_point_to_image_point(label_point, zoom, shape) ==
    << MapCoordinate(label_point[1], zoom, shape[2]),
       MapCoordinate(label_point[2], zoom, shape[1]) >>

\* QRect(p1, p2).normalized() of Qt 5: corners are inclusive, and corners in
\* the wrong order are swapped
NormalizedRect(p1, p2) ==
    LET x1 == IF p2[1] < p1[1] - 1 THEN p2[1] ELSE p1[1]
        x2 == IF p2[1] < p1[1] - 1 THEN p1[1] ELSE p2[1]
        y1 == IF p2[2] < p1[2] - 1 THEN p2[2] ELSE p1[2]
        y2 == IF p2[2] < p1[2] - 1 THEN p1[2] ELSE p2[2]
    IN  [set |-> TRUE, x |-> x1, y |-> y1, w |-> x2 - x1 + 1, h |-> y2 - y1 + 1]

\* the smallest width and height eventFilter accepts must exceed this
min_selection == 4

\* eventFilter on the reference label: a left button press at start, a drag
\* and the release at end, with the zoom factor the view has
eventFilter(start, end, zoom) ==
    /\ ~setting_ref_points /\ ~setting_current_points
    /\ ValidIdx(ref_image_idx, image_data)
    /\ UNCHANGED clicks
    /\ LET shape == ShapeOf(image_data[ref_image_idx].image)
           p1_img == map_label_point_to_image_point(start, zoom, shape)
           p2_img == map_label_point_to_image_point(end, zoom, shape)
           img_rect == NormalizedRect(p1_img, p2_img)
       IN  IF img_rect.w > min_selection /\ img_rect.h > min_selection
           THEN anchor_rect_img_coords' = img_rect
           ELSE UNCHANGED anchor_rect_img_coords
    /\ UNCHANGED << image_data, ref_image_idx, current_image_idx, reg_method,
                    msgbox, workerVars >>

\* variant of MayAddPoint: the number of points of the set is not looked at
MayAddPoint_AnyCount(mode, points) == mode

\* lines 663 and 686: a click on a label is taken while the selection mode of
\* that label is active and its point set holds fewer than two points
MayAddPoint(mode, points) == mode /\ Len(points) < 2

\* btn_set_ref_pts is pressed: toggled is emitted with the new state of the
\* button, and entering the mode unchecks the other button without a signal
toggle_set_ref_mode(is_checked) ==
    /\ CanClick
    /\ is_checked # setting_ref_points
    /\ clicks' = clicks + 1
    /\ setting_ref_points' = is_checked
    /\ setting_current_points' = (IF is_checked THEN FALSE
                                  ELSE setting_current_points)
    /\ msgbox' = ""
    /\ UNCHANGED << image_data, ref_image_idx, current_image_idx,
                    anchor_rect_img_coords, reg_method, threadVars,
                    checked, ref_points, current_points >>

\* btn_set_cur_pts is pressed
toggle_set_cur_mode(is_checked) ==
    /\ CanClick
    /\ is_checked # setting_current_points
    /\ clicks' = clicks + 1
    /\ setting_current_points' = is_checked
    /\ setting_ref_points' = (IF is_checked THEN FALSE
                              ELSE setting_ref_points)
    /\ msgbox' = ""
    /\ UNCHANGED << image_data, ref_image_idx, current_image_idx,
                    anchor_rect_img_coords, reg_method, threadVars,
                    checked, ref_points, current_points >>

\* handle_ref_label_click: a left click on the reference label, which
\* _set_ui_enabled leaves enabled; the second point unchecks btn_set_ref_pts,
\* whose toggled signal runs toggle_set_ref_mode(False)
handle_ref_label_click(label_point, zoom) ==
    /\ clicks < MaxClicks
    /\ msgbox' = ""
    /\ IF MayAddPoint(setting_ref_points, ref_points)
          /\ ValidIdx(ref_image_idx, image_data)
       THEN /\ clicks' = clicks + 1
            /\ ref_points' = Append(ref_points,
                   map_label_point_to_image_point(label_point, zoom,
                       ShapeOf(image_data[ref_image_idx].image)))
            /\ setting_ref_points' = (IF Len(ref_points) + 1 = 2 THEN FALSE
                                      ELSE setting_ref_points)
       ELSE UNCHANGED << clicks, ref_points, setting_ref_points >>
    /\ UNCHANGED << image_data, ref_image_idx, current_image_idx,
                    anchor_rect_img_coords, reg_method, threadVars,
                    checked, current_points, setting_current_points >>

\* handle_current_label_click: a left click on the label of the current image
handle_current_label_click(label_point, zoom) ==
    /\ clicks < MaxClicks
    /\ msgbox' = ""
    /\ IF MayAddPoint(setting_current_points, current_points)
          /\ ValidIdx(current_image_idx, image_data)
       THEN /\ clicks' = clicks + 1
            /\ current_points' = Append(current_points,
                   map_label_point_to_image_point(label_point, zoom,
                       ShapeOf(image_data[current_image_idx].image)))
            /\ setting_current_points' = (IF Len(current_points) + 1 = 2
                                          THEN FALSE
                                          ELSE setting_current_points)
       ELSE UNCHANGED << clicks, current_points, setting_current_points >>
    /\ UNCHANGED << image_data, ref_image_idx, current_image_idx,
                    anchor_rect_img_coords, reg_method, threadVars,
                    checked, ref_points, setting_ref_points >>

\* btn_clear_ref_points
clear_ref_points ==
    /\ ui_enabled
    /\ ref_points' = << >>
    /\ msgbox' = ""
    /\ UNCHANGED << image_data, ref_image_idx, current_image_idx,
                    anchor_rect_img_coords, reg_method, clicks,
                    threadVars, checked, current_points, modeVars >>

\* btn_clear_current_points
clear_current_points ==
    /\ ui_enabled
    /\ current_points' = << >>
    /\ msgbox' = ""
    /\ UNCHANGED << image_data, ref_image_idx, current_image_idx,
                    anchor_rect_img_coords, reg_method, clicks,
                    threadVars, checked, ref_points, modeVars >>

\* the registration method radio buttons
select_method(m) ==
    /\ ui_enabled
    /\ m # reg_method
    /\ UNCHANGED clicks
    /\ reg_method' = m
    /\ msgbox' = ""
    /\ UNCHANGED << image_data, ref_image_idx, current_image_idx,
                    anchor_rect_img_coords, workerVars >>

\* btn_apply_anchor
apply_anchor_from_inputs(t) ==
    /\ ui_enabled
    /\ UNCHANGED clicks
    /\ IF image_data = << >>
       THEN msgbox' = "No Image" /\ UNCHANGED anchor_rect_img_coords
       ELSE IF ~ValidIdx(ref_image_idx, image_data)
       THEN msgbox' = "Invalid Reference" /\ UNCHANGED anchor_rect_img_coords
       ELSE IF LET img_h == ShapeOf(image_data[ref_image_idx].image)[1]
                   img_w == ShapeOf(image_data[ref_image_idx].image)[2]
               IN  t.w <= 0 \/ t.h <= 0 \/ t.x < 0 \/ t.y < 0
                   \/ t.x + t.w > img_w \/ t.y + t.h > img_h
       THEN msgbox' = "Invalid Input" /\ UNCHANGED anchor_rect_img_coords
       ELSE /\ anchor_rect_img_coords' = [set |-> TRUE, x |-> t.x, y |-> t.y,
                                          w |-> t.w, h |-> t.h]
            /\ msgbox' = ""
    /\ UNCHANGED << image_data, ref_image_idx, current_image_idx, reg_method,
                    workerVars >>

\* the value translate_image reads from the shift box
TranslateShift(t) == IF t.num /\ t.v > 0 THEN t.v ELSE 1

\* translate_image: the new buffer, or the old one when the shift is rejected
translate_buffer(buf, direction, shift_val) ==
    LET rows == ShapeOf(buf)[1]
        cols == ShapeOf(buf)[2]
    IN  CASE direction = "Left"  -> IF shift_val < cols THEN Shifted(buf, -shift_val, 0) ELSE buf
          [] direction = "Right" -> IF shift_val < cols THEN Shifted(buf, shift_val, 0) ELSE buf
          [] direction = "Up"    -> IF shift_val < rows THEN Shifted(buf, 0, -shift_val) ELSE buf
          [] direction = "Down"  -> IF shift_val < rows THEN Shifted(buf, 0, shift_val) ELSE buf
          [] OTHER -> buf

\* btn_left, btn_right, btn_up, btn_down
translate_image(direction, t) ==
    /\ CanClick
    /\ clicks' = clicks + 1
    /\ IF image_data = << >> \/ ~ValidIdx(current_image_idx, image_data)
       THEN UNCHANGED image_data
       ELSE image_data' =
              [image_data EXCEPT ![current_image_idx].image =
                  translate_buffer(@, direction, TranslateShift(t))]
    /\ msgbox' = ""
    /\ UNCHANGED << ref_image_idx, current_image_idx, anchor_rect_img_coords,
                    reg_method, workerVars >>

\* variant of CaptureOrig: the original is overwritten at every rotation
CaptureOrig_EveryTime(entry) ==
    [entry EXCEPT !.image_orig = entry.image]

\* lines 98-99 of apply_text_rotation: the original is kept on first use
CaptureOrig(entry) ==
    IF entry.image_orig = NoOrig
    THEN [entry EXCEPT !.image_orig = entry.image]
    ELSE entry

\* apply_text_rotation on one entry: the entry afterwards
RotateEntryTo(entry, t, cv_ok) ==
    LET e1 == CaptureOrig(entry)
        rotated_im == _perform_cv_rotation(e1.image_orig, t.v, cv_ok)
    IN  IF ~t.num THEN e1
        ELSE IF Abs(t.v - e1.total_rotation) = 0 THEN e1
        ELSE IF rotated_im # NoOrig
        THEN [e1 EXCEPT !.image = rotated_im, !.total_rotation = t.v]
        ELSE e1

RotateMsg(entry, t, cv_ok) ==
    IF ~t.num THEN "Invalid Input"
    ELSE IF Abs(t.v - entry.total_rotation) = 0 THEN ""
    ELSE IF cv_ok THEN "" ELSE "Rotation Error"

\* btn_apply_rotation
apply_text_rotation(t, cv_ok) ==
    /\ CanClick
    /\ clicks' = clicks + 1
    /\ IF image_data = << >> \/ ~ValidIdx(current_image_idx, image_data)
       THEN msgbox' = "" /\ UNCHANGED image_data
       ELSE /\ image_data' = [image_data EXCEPT ![current_image_idx] =
                                  RotateEntryTo(@, t, cv_ok)]
            /\ msgbox' = RotateMsg(image_data[current_image_idx], t, cv_ok)
    /\ UNCHANGED << ref_image_idx, current_image_idx, anchor_rect_img_coords,
                    reg_method, workerVars >>

\* btn_rot_l, btn_rot_r
rotate_image_incremental(direction, cv_ok) ==
    /\ CanClick
    /\ clicks' = clicks + 1
    /\ IF image_data = << >> \/ ~ValidIdx(current_image_idx, image_data)
       THEN msgbox' = "" /\ UNCHANGED image_data
       ELSE LET entry == image_data[current_image_idx]
                angle_step == 10
                incremental_angle == IF direction = "Left" THEN -angle_step
                                     ELSE angle_step
                t == Text(Format1f(entry.total_rotation + incremental_angle))
            IN  /\ image_data' = [image_data EXCEPT ![current_image_idx] =
                                      RotateEntryTo(@, t, cv_ok)]
                /\ msgbox' = RotateMsg(entry, t, cv_ok)
    /\ UNCHANGED << ref_image_idx, current_image_idx, anchor_rect_img_coords,
                    reg_method, workerVars >>

\* np.degrees(np.arctan2(dy, dx)) in hundredths of a degree, for the vectors
\* between picked points: a component is zero, both have the same size or one
\* is twice the other; arctan2(0, 0) is 0
Atan2Deg(dy, dx) ==
    LET a == IF dy = 0 THEN 0
             ELSE IF dx = 0 THEN 9000
             ELSE IF Abs(dx) = Abs(dy) THEN 4500
             ELSE IF Abs(dx) = 2 * Abs(dy) THEN 2657
             ELSE 6343
        b == IF dx < 0 THEN 18000 - a ELSE a
    IN  IF dy < 0 THEN -b ELSE b

\* variant of ZeroLength: no vector is taken for degenerate
ZeroLength_Never(dx, dy) == FALSE

\* lines 1235-1240: abs(dx) < 1e-6 and abs(dy) < 1e-6 on integer coordinates
ZeroLength(dx, dy) == Abs(dx) = 0 /\ Abs(dy) = 0

\* btn_get_rotation: the two point pairs picked on the labels give a rotation
\* delta, which is added to total_rotation, written to the rotation text box
\* with one decimal and applied by apply_text_rotation
calculate_rotation_from_points(cv_ok) ==
    /\ CanClick
    /\ clicks' = clicks + 1
    /\ IF Len(ref_points) # 2 \/ Len(current_points) # 2
       THEN msgbox' = "Not Enough Points" /\ UNCHANGED image_data
       ELSE LET dx_ref == ref_points[2][1] - ref_points[1][1]
                dy_ref == ref_points[2][2] - ref_points[1][2]
                dx_curr == current_points[2][1] - current_points[1][1]
                dy_curr == current_points[2][2] - current_points[1][2]
                rotation_deg == Atan2Deg(dy_ref, dx_ref)
                                    - Atan2Deg(dy_curr, dx_curr)
                current_total_rotation ==
                    IF ValidIdx(current_image_idx, image_data)
                    THEN image_data[current_image_idx].total_rotation ELSE 0
                new_target_rotation == current_total_rotation + rotation_deg
                t == Text(Format1f(new_target_rotation))
            IN  IF ZeroLength(dx_ref, dy_ref) \/ ZeroLength(dx_curr, dy_curr)
                THEN msgbox' = "Invalid Points" /\ UNCHANGED image_data
                ELSE IF image_data = << >>
                        \/ ~ValidIdx(current_image_idx, image_data)
                THEN msgbox' = "" /\ UNCHANGED image_data
                ELSE /\ image_data' = [image_data EXCEPT ![current_image_idx] =
                                          RotateEntryTo(@, t, cv_ok)]
                     /\ msgbox' = RotateMsg(image_data[current_image_idx],
                                            t, cv_ok)
    /\ UNCHANGED << ref_image_idx, current_image_idx, anchor_rect_img_coords,
                    reg_method, workerVars >>

(* ------------------------------ workers -------------------------------- *)
\* scan_range_pixels of _register_scan_ssd
scan_range_pixels == 15
\* the fallback frame rate of start_morphing
DefaultFps == 5

\* pyqtSignal.emit over a queued connection
Emit(w, sigs) == [w EXCEPT !.emitted = @ \o sigs]

Progress3(a, b, c) == [sig |-> "progress", a |-> a, b |-> b, name |-> c]
Progress2(a, b) == [sig |-> "progress", a |-> a, b |-> b]
ImageUpdated(idx, arr) == [sig |-> "image_updated", index |-> idx, image |-> arr]
RotationUpdated(idx, rot) == [sig |-> "rotation_updated", index |-> idx, rot |-> rot]
ErrorSig == [sig |-> "error"]
Finished2(a, b) == [sig |-> "finished", kind |-> "reg", a |-> a, b |-> b]
Finished1(a) == [sig |-> "finished", kind |-> "morph", a |-> a]
ThreadFinished == [sig |-> "thread_finished"]

\* RegistrationWorker.__init__
RegistrationWorker(image_data_list, ref_idx, indices, method, anchor_details, ref_anchor, shift_val) ==
    [kind |-> "reg", pc |-> "loop",
     image_data_list |-> image_data_list,
     ref_image_idx |-> ref_idx,
     indices_to_register |-> indices,
     reg_method |-> method,
     anchor_details |-> anchor_details,
     ref_anchor |-> ref_anchor,
     shift_val |-> shift_val,
     is_cancelled |-> FALSE,
     i |-> 0, registered_count |-> 0, errors |-> 0,
     last |-> "", emitted |-> << >>]

\* MorphWorker.__init__
MorphWorker(image_data_list, frame_rate) ==
    [kind |-> "morph", pc |-> "start",
     image_data_list |-> image_data_list,
     frame_rate |-> frame_rate,
     is_cancelled |-> FALSE,
     counter |-> 0, generated_count |-> 0, idx |-> 0, i |-> 0,
     frames |-> << >>, emitted |-> << >>]

\* the offsets _register_scan_ssd can return: on the scan grid and with the
\* shifted patch inside the target image
ScanCandidates(anchor, step_size, shape) ==
    { s \in EstShifts :
        /\ (s[1] + scan_range_pixels) % step_size = 0
        /\ (s[2] + scan_range_pixels) % step_size = 0
        /\ 0 <= anchor.x + s[1] /\ anchor.x + s[1] + anchor.w <= shape[2]
        /\ 0 <= anchor.y + s[2] /\ anchor.y + s[2] + anchor.h <= shape[1] }

\* the estimator results that are possible for the worker's method
OutcomesFor(w) ==
    CASE w.reg_method = "fft" ->
            { o \in Outcomes : o.kind \in {"raise", "none", "shift"} }
      [] w.reg_method = "scan" ->
            IF w.ref_anchor = None THEN { [kind |-> "none"] }
            ELSE { o \in Outcomes :
                     \/ o.kind \in {"raise", "none"}
                     \/ /\ o.kind = "shift"
                        /\ << o.xoff, o.yoff >> \in
                               ScanCandidates(w.anchor_details, w.shift_val,
                                   ShapeOf(w.image_data_list[
                                       w.indices_to_register[w.i + 1]].image)) }
      [] w.reg_method = "scan_rot" ->
            IF w.ref_anchor = None THEN { [kind |-> "none"] }
            ELSE { o \in Outcomes : o.kind \in {"raise", "none", "rot"} }
      [] OTHER -> { [kind |-> "none"] }

\* variant of RotationResult: the buffer is sent even when the rotation failed
RotationResult_SentOnFailure(idx, image_to_rotate, rotated_im, new_total_rotation) ==
    IF rotated_im # NoOrig
    THEN [sigs |-> << ImageUpdated(idx, rotated_im),
                      RotationUpdated(idx, new_total_rotation) >>,
          end |-> "ok"]
    ELSE [sigs |-> << ImageUpdated(idx, image_to_rotate) >>,
          end |-> "rotation failed"]

\* RegistrationWorker.run, lines 180-193: the result of the rotation is sent
\* as image_updated then rotation_updated, or the target fails
RotationResult(idx, image_to_rotate, rotated_im, new_total_rotation) ==
    IF rotated_im # NoOrig
    THEN [sigs |-> << ImageUpdated(idx, rotated_im),
                      RotationUpdated(idx, new_total_rotation) >>,
          end |-> "ok"]
    ELSE [sigs |-> << >>, end |-> "rotation failed"]

\* lines 79-206 of RegistrationWorker.run for the target idx: the signals
\* emitted and how the item ends ("ok", or the reason it counts as an error)
ProcessItem(w, idx, out) ==
    LET image_info == w.image_data_list[idx]
        current_image_full_color == image_info.image
        estimated == w.reg_method \in {"fft", "scan", "scan_rot"}
        needs_anchor == w.reg_method \in {"scan", "scan_rot"}
        shift_x_int == IF out.kind = "shift" THEN -out.xoff ELSE 0
        shift_y_int == IF out.kind = "shift" THEN -out.yoff ELSE 0
        rot_angle == IF out.kind = "rot" THEN out.delta ELSE 0
        new_total_rotation == image_info.total_rotation + rot_angle
        image_to_rotate == IF image_info.image_orig # NoOrig
                           THEN image_info.image_orig
                           ELSE current_image_full_color
        rotated_im == _perform_cv_rotation(image_to_rotate, new_total_rotation,
                                           out.kind = "rot" /\ out.cv_ok)
    IN  IF ~estimated THEN [sigs |-> << >>, end |-> "unknown method"]
        ELSE IF needs_anchor /\ w.ref_anchor = None
        THEN [sigs |-> << >>, end |-> "no anchor"]
        ELSE IF out.kind = "raise" THEN [sigs |-> << >>, end |-> "exception"]
        ELSE IF out.kind = "none" THEN [sigs |-> << >>, end |-> "no solution"]
        ELSE IF Abs(shift_y_int) > 0 \/ Abs(shift_x_int) > 0
        THEN [sigs |-> << ImageUpdated(idx,
                            Shifted(current_image_full_color, shift_x_int, shift_y_int)) >>,
              end |-> "ok"]
        ELSE IF Abs(rot_angle) > 0
        THEN RotationResult(idx, image_to_rotate, rotated_im, new_total_rotation)
        ELSE [sigs |-> << >>, end |-> "ok"]

mainVars == << image_data, ref_image_idx, current_image_idx,
               anchor_rect_img_coords, reg_method, worker_thread,
               progress_dialog, ui_enabled, msgbox, threads_running, clicks,
               calc, selVars >>

\* one step of the worker thread: the worker's new state and what it emitted
WorkerStep(w, sigs) ==
    /\ worker' = Emit(w, sigs)
    /\ inbox' = inbox \o sigs
    /\ UNCHANGED mainVars

\* variant of CancelPolled: the loop never looks at the cancel flag
CancelPolled_Never(w) == FALSE

\* RegistrationWorker.run, lines 70-72: the cancel poll at the top of the loop
CancelPolled(w) == w.is_cancelled

\* variant of FatalFinished: the counters are reported as they stand
FatalFinished_PlainCounts(w) == Finished2(w.registered_count, w.errors)

\* RegistrationWorker.run, line 216: the counts reported after a fatal error
FatalFinished(w) ==
    LET num_to_process == Len(w.indices_to_register)
    IN  Finished2(w.registered_count,
                  w.errors + (num_to_process - w.registered_count - w.errors))

\* variant of TargetProgress: positions counted from 0
TargetProgress_ZeroBased(w, idx) ==
    Progress3(w.i, Len(w.indices_to_register), w.image_data_list[idx].name)

\* RegistrationWorker.run, line 76: the progress signal of the target at idx
TargetProgress(w, idx) ==
    Progress3(w.i + 1, Len(w.indices_to_register), w.image_data_list[idx].name)

\* RegistrationWorker.run, lines 69-77: the loop test, the cancel poll and the
\* progress signal of the next target
RegLoopTop ==
    /\ worker.kind = "reg" /\ worker.pc = "loop"
    /\ LET num_to_process == Len(worker.indices_to_register)
           idx == worker.indices_to_register[worker.i + 1]
       IN  IF worker.i >= num_to_process \/ CancelPolled(worker)
           THEN WorkerStep([worker EXCEPT !.pc = "finish"], << >>)
           ELSE IF idx \notin DOMAIN worker.image_data_list
           THEN \* IndexError outside the per-item try: lines 209-217
                WorkerStep([worker EXCEPT !.pc = "done", !.last = "fatal"],
                           << ErrorSig, FatalFinished(worker) >>)
           ELSE WorkerStep([worker EXCEPT !.pc = "process"],
                           << TargetProgress(worker, idx) >>)

\* variant of CountItem: a failed target is not counted
CountItem_FailureUncounted(w, end) ==
    [w EXCEPT !.pc = "loop", !.i = @ + 1, !.last = end,
              !.registered_count = IF end = "ok" THEN @ + 1 ELSE @]

\* variant of CountItem: registered_count counts every target
CountItem_EveryTargetRegistered(w, end) ==
    [w EXCEPT !.pc = "loop", !.i = @ + 1, !.last = end,
              !.registered_count = @ + 1,
              !.errors = IF end = "ok" THEN @ ELSE @ + 1]

\* RegistrationWorker.run, lines 198 and 200-206: the target is counted as
\* registered or as an error and the loop goes on
CountItem(w, end) ==
    [w EXCEPT !.pc = "loop", !.i = @ + 1, !.last = end,
              !.registered_count = IF end = "ok" THEN @ + 1 ELSE @,
              !.errors = IF end = "ok" THEN @ ELSE @ + 1]

\* RegistrationWorker.run, lines 79-206: one target
RegProcess(out) ==
    /\ worker.kind = "reg" /\ worker.pc = "process"
    /\ out \in OutcomesFor(worker)
    /\ LET idx == worker.indices_to_register[worker.i + 1]
           res == ProcessItem(worker, idx, out)
       IN  WorkerStep(CountItem(worker, res.end), res.sigs)

\* RegistrationWorker.run, lines 219-223
RegFinish ==
    /\ worker.kind = "reg" /\ worker.pc = "finish"
    /\ WorkerStep([worker EXCEPT !.pc = "done"],
                  << Finished2(worker.registered_count, worker.errors) >>)

\* variant of WriteFrame: the written frame is not counted
WriteFrame_Uncounted(w, content) ==
    [w EXCEPT !.frames = Append(@, [index |-> w.counter, image |-> content]),
              !.counter = @ + 1]

\* imageio.imwrite of one frame, then the progress signal
WriteFrame(w, content) ==
    [w EXCEPT !.frames = Append(@, [index |-> w.counter, image |-> content]),
              !.generated_count = @ + 1,
              !.counter = @ + 1]

total_expected_frames(num_images, frame_rate) ==
    LET t == IF num_images > 0
             THEN (num_images - 1) * (frame_rate - 1) + num_images ELSE 0
    IN  IF t <= 0 THEN 1 ELSE t

MorphProgress(w) ==
    Progress2(w.counter + 1,
              total_expected_frames(Len0(w.image_data_list), w.frame_rate))

\* variant of MorphFatalSignals: no finished after a fatal error
MorphFatalSignals_ErrorOnly(w) == << ErrorSig >>

\* MorphWorker.run, lines 346-347: error, then finished with the frame count
MorphFatalSignals(w) == << ErrorSig, Finished1(w.generated_count) >>

\* MorphWorker.run, lines 342-348: an exception ends the run
MorphFatal(w) ==
    WorkerStep([w EXCEPT !.pc = "done"], MorphFatalSignals(w))

\* MorphWorker.run, lines 269-283
MorphStart(io_ok) ==
    /\ worker.kind = "morph" /\ worker.pc = "start"
    /\ IF Len0(worker.image_data_list) = 0
       THEN WorkerStep([worker EXCEPT !.pc = "done"], << Finished1(0) >>)
       ELSE IF ~io_ok THEN MorphFatal(worker)
       ELSE WorkerStep(
              [WriteFrame(worker, worker.image_data_list[0].image)
                   EXCEPT !.pc = "pair"],
              << MorphProgress(worker) >>)

\* variant of ShapeMismatch: shapes are never compared
ShapeMismatch_Never(img1_data, img2_data) == FALSE

\* MorphWorker.run, line 296: img1_data.shape != img2_data.shape
ShapeMismatch(img1_data, img2_data) == ShapeOf(img1_data) # ShapeOf(img2_data)

\* variant of NumSteps: one interpolated frame per unit of the frame rate
NumSteps_FrameRate(frame_rate) == frame_rate

\* MorphWorker.run, line 314: num_steps = self.frame_rate - 1
NumSteps(frame_rate) == frame_rate - 1

\* variant of MorphCancelPolled: the flag is never looked at
MorphCancelPolled_Never(w) == FALSE

\* MorphWorker.run, lines 287, 316 and 328: if self._is_cancelled: break
MorphCancelPolled(w) == w.is_cancelled

\* MorphWorker.run, lines 286-314: the pair loop test, the cancel poll and
\* the shape check
MorphPair(io_ok) ==
    /\ worker.kind = "morph" /\ worker.pc = "pair"
    /\ LET num_images == Len0(worker.image_data_list)
           img1_data == worker.image_data_list[worker.idx].image
           img2_data == worker.image_data_list[worker.idx + 1].image
       IN  IF worker.idx >= num_images - 1 \/ MorphCancelPolled(worker)
           THEN WorkerStep([worker EXCEPT !.pc = "finish"], << >>)
           ELSE IF ShapeMismatch(img1_data, img2_data)
           THEN IF ~io_ok THEN MorphFatal(worker)
                ELSE WorkerStep(
                       [WriteFrame(worker, img2_data) EXCEPT !.idx = @ + 1],
                       << MorphProgress(worker) >>)
           ELSE WorkerStep([worker EXCEPT !.pc = "interp", !.i = 0], << >>)

\* variant of Alpha: the weights start at 0
Alpha_FromZero(i, frame_rate) == << i, frame_rate >>

\* MorphWorker.run, line 318: alpha = (i + 1.0) / self.frame_rate, as the
\* fraction << numerator, denominator >>
Alpha(i, frame_rate) == << i + 1, frame_rate >>

\* MorphWorker.run, lines 315-326: one interpolation step
MorphInterp(io_ok) ==
    /\ worker.kind = "morph" /\ worker.pc = "interp"
    /\ LET num_steps == NumSteps(worker.frame_rate)
           alpha == Alpha(worker.i, worker.frame_rate)
           interp_img == << <<"interp",
                              worker.image_data_list[worker.idx].image,
                              worker.image_data_list[worker.idx + 1].image,
                              alpha>> >>
       IN  IF worker.i >= num_steps \/ MorphCancelPolled(worker)
           THEN WorkerStep([worker EXCEPT !.pc = "after"], << >>)
           ELSE IF ~io_ok THEN MorphFatal(worker)
           ELSE WorkerStep([WriteFrame(worker, interp_img) EXCEPT !.i = @ + 1],
                           << MorphProgress(worker) >>)

\* MorphWorker.run, lines 328-338: the closing frame of the pair
MorphAfter(io_ok) ==
    /\ worker.kind = "morph" /\ worker.pc = "after"
    /\ IF MorphCancelPolled(worker)
       THEN WorkerStep([worker EXCEPT !.pc = "finish"], << >>)
       ELSE IF ~io_ok THEN MorphFatal(worker)
       ELSE WorkerStep(
              [WriteFrame(worker, worker.image_data_list[worker.idx + 1].image)
                   EXCEPT !.pc = "pair", !.idx = @ + 1],
              << MorphProgress(worker) >>)

\* MorphWorker.run, lines 350-353
MorphFinish ==
    /\ worker.kind = "morph" /\ worker.pc = "finish"
    /\ WorkerStep([worker EXCEPT !.pc = "done"],
                  << Finished1(worker.generated_count) >>)

\* RegistrationWorker.cancel / MorphWorker.cancel
cancel ==
    /\ worker.kind # "none"
    /\ worker' = [worker EXCEPT !.is_cancelled = TRUE]
    /\ UNCHANGED << inbox, mainVars >>

(* ------------------------- batch start and end ------------------------- *)
\* the QThread started last has not quit yet
ThreadRunning == worker_thread = "running"

\* variant of IsBusy: a running thread is not noticed
IsBusy_Never == FALSE

\* worker_thread is not None and worker_thread.isRunning()
IsBusy == worker_thread # None /\ worker_thread = "running"

\* copy.deepcopy(self.image_data)
DeepCopy(data) == data

\* variant of ShiftValStep: an integer is used as typed
ShiftValStep_AsTyped(t) == IF t.num THEN t.v ELSE 1

\* the step size start_registration reads from the shift box
ShiftValStep(t) == IF t.num /\ t.v > 0 THEN t.v ELSE 1

\* variant of AllButRef: the reference is among the targets
AllButRef_WithRef(num_images, ref) == [k \in 1..num_images |-> k - 1]

\* [i for i in range(num_images) if i != ref_image_idx]
AllButRef(num_images, ref) ==
    [k \in 1..(num_images - 1) |-> IF k - 1 < ref THEN k - 1 ELSE k]

\* variant of AnchorValidFor: any rectangle passes
AnchorValidFor_Always(rect, shape) == TRUE

\* the anchor check of start_registration against the reference image
AnchorValidFor(rect, shape) ==
    /\ 0 <= rect.y /\ rect.y < rect.y + rect.h /\ rect.y + rect.h <= shape[1]
    /\ 0 <= rect.x /\ rect.x < rect.x + rect.w /\ rect.x + rect.w <= shape[2]

\* the early returns of start_registration: the message box of the return
\* taken, or "" when the batch is started
StartRegistrationRefusal(mode) ==
    LET num_images == Len0(image_data)
    IN  IF IsBusy THEN "Busy"
        ELSE IF num_images < 2 THEN "Not Ready"
        ELSE IF ~ValidIdx(ref_image_idx, image_data) THEN "Invalid Reference"
        ELSE IF mode = "all" /\ AllButRef(num_images, ref_image_idx) = << >>
        THEN "Register All"
        ELSE IF mode = "current" /\ current_image_idx = ref_image_idx
        THEN "Register Current"
        ELSE IF mode = "current" /\ ~ValidIdx(current_image_idx, image_data)
        THEN "Invalid Selection"
        ELSE IF mode \notin {"all", "current"} THEN "Error"
        ELSE IF anchor_rect_img_coords.set
                /\ ~AnchorValidFor(anchor_rect_img_coords,
                                   ShapeOf(image_data[ref_image_idx].image))
        THEN "Registration Error"
        ELSE IF ~anchor_rect_img_coords.set /\ reg_method \in {"scan", "scan_rot"}
        THEN "Anchor Required"
        ELSE ""

\* the worker start_registration creates
NewRegistrationWorker(mode, t) ==
    RegistrationWorker(
        DeepCopy(image_data),
        ref_image_idx,
        IF mode = "all" THEN AllButRef(Len0(image_data), ref_image_idx)
        ELSE << current_image_idx >>,
        reg_method,
        IF anchor_rect_img_coords.set
        THEN [x |-> anchor_rect_img_coords.x, y |-> anchor_rect_img_coords.y,
              w |-> anchor_rect_img_coords.w, h |-> anchor_rect_img_coords.h]
        ELSE [x |-> 0, y |-> 0, w |-> 0, h |-> 0],
        IF anchor_rect_img_coords.set THEN "patch" ELSE None,
        ShiftValStep(t))

\* variant of LaunchThread: the controls stay as they are
LaunchThread_ControlsLeftEnabled(w) ==
    /\ worker' = w
    /\ worker_thread' = "running"
    /\ threads_running' = threads_running + 1
    /\ progress_dialog' = "open"
    /\ ui_enabled' = ui_enabled

\* the tail of start_registration and start_morphing: thread, dialog, controls
LaunchThread(w) ==
    /\ worker' = w
    /\ worker_thread' = "running"
    /\ threads_running' = threads_running + 1
    /\ progress_dialog' = "open"
    /\ ui_enabled' = FALSE

\* a start button is clicked, or start_* is entered while a thread runs
CanStart == (ui_enabled \/ ThreadRunning) /\ clicks < MaxClicks

\* btn_register_all, btn_register_current
start_registration(mode, t) ==
    /\ CanStart
    /\ clicks' = clicks + 1
    /\ LET refusal == StartRegistrationRefusal(mode)
       IN  IF refusal # ""
           THEN /\ msgbox' = refusal
                /\ UNCHANGED << worker, worker_thread, threads_running,
                                progress_dialog, ui_enabled >>
           ELSE /\ LaunchThread(NewRegistrationWorker(mode, t))
                /\ msgbox' = ""
    /\ UNCHANGED << image_data, ref_image_idx, current_image_idx,
                    anchor_rect_img_coords, reg_method, inbox, calc,
                    selVars >>

\* variant of MorphFrameRate: the text is used as typed
MorphFrameRate_AsTyped(t) == IF t.num THEN t.v ELSE 0

\* the frame rate start_morphing uses
MorphFrameRate(t) == IF t.num /\ t.v >= 2 THEN t.v ELSE DefaultFps

\* btn_morph; save is the outcome of the file dialog and of os.makedirs
start_morphing(t, save) ==
    /\ CanStart
    /\ clicks' = clicks + 1
    /\ IF IsBusy
       THEN /\ msgbox' = "Busy"
            /\ UNCHANGED << worker, worker_thread, threads_running,
                            progress_dialog, ui_enabled >>
       ELSE IF Len0(image_data) < 2
       THEN /\ msgbox' = "Not Enough Images"
            /\ UNCHANGED << worker, worker_thread, threads_running,
                            progress_dialog, ui_enabled >>
       ELSE IF save # "ok"
       THEN /\ msgbox' = (IF save = "oserror" THEN "Folder Error"
                          ELSE IF t.num /\ t.v >= 2 THEN ""
                          ELSE "Invalid FPS")
            /\ UNCHANGED << worker, worker_thread, threads_running,
                            progress_dialog, ui_enabled >>
       ELSE /\ msgbox' = (IF t.num /\ t.v >= 2 THEN "" ELSE "Invalid FPS")
            /\ LaunchThread(MorphWorker(DeepCopy(image_data), MorphFrameRate(t)))
    /\ UNCHANGED << image_data, ref_image_idx, current_image_idx,
                    anchor_rect_img_coords, reg_method, inbox, calc,
                    selVars >>

\* the Cancel button of the progress dialog: cancel_worker
cancel_worker ==
    /\ progress_dialog = "open"
    /\ IF worker.kind # "none"
       THEN worker' = [worker EXCEPT !.is_cancelled = TRUE]
       ELSE UNCHANGED worker
    /\ UNCHANGED << inbox, mainVars >>

\* progress_dialog.close() when there is a dialog
CloseDialog == IF progress_dialog # None THEN "closed" ELSE progress_dialog

\* variant of _on_worker_thread_finished: the controls stay disabled
_on_worker_thread_finished_ControlsLeftDisabled ==
    /\ ui_enabled' = ui_enabled
    /\ worker_thread' = None
    /\ worker' = NoWorker
    /\ progress_dialog' = None

\* the slot of QThread.finished: controls re-enabled, worker, thread and
\* progress dialog reset
_on_worker_thread_finished ==
    /\ ui_enabled' = TRUE
    /\ worker_thread' = None
    /\ worker' = NoWorker
    /\ progress_dialog' = None

\* the main thread's event loop runs the slot of the next queued signal
DeliverSignal ==
    /\ inbox # << >>
    /\ inbox' = (IF Head(inbox).sig = "finished"
                 THEN Append(Tail(inbox), ThreadFinished) ELSE Tail(inbox))
    /\ LET m == Head(inbox)
       IN  CASE m.sig = "progress" ->
                  \* handle_registration_progress, handle_morph_progress
                  UNCHANGED << image_data, current_image_idx, worker,
                               worker_thread, progress_dialog, ui_enabled,
                               msgbox, threads_running >>
             [] m.sig = "image_updated" ->
                  \* handle_image_update
                  /\ IF ValidIdx(m.index, image_data)
                     THEN /\ image_data' = [image_data EXCEPT
                                               ![m.index].image = m.image]
                          /\ current_image_idx' = m.index
                     ELSE UNCHANGED << image_data, current_image_idx >>
                  /\ UNCHANGED << worker, worker_thread, progress_dialog,
                                  ui_enabled, msgbox, threads_running >>
             [] m.sig = "rotation_updated" ->
                  \* handle_rotation_update
                  /\ IF ValidIdx(m.index, image_data)
                     THEN image_data' = [image_data EXCEPT
                                            ![m.index].total_rotation = m.rot]
                     ELSE UNCHANGED image_data
                  /\ UNCHANGED << current_image_idx, worker, worker_thread,
                                  progress_dialog, ui_enabled, msgbox,
                                  threads_running >>
             [] m.sig = "error" ->
                  \* handle_worker_error
                  /\ progress_dialog' = CloseDialog
                  /\ msgbox' = "Worker Error"
                  /\ UNCHANGED << image_data, current_image_idx, worker,
                                  worker_thread, ui_enabled, threads_running >>
             [] m.sig = "finished" ->
                  \* handle_registration_finished / handle_morph_finished,
                  \* then worker_thread.quit
                  /\ progress_dialog' = CloseDialog
                  /\ msgbox' = (IF m.kind = "morph" THEN "Morph Complete"
                                ELSE IF m.b > 0 THEN "Registration Issues"
                                ELSE IF m.a > 0 THEN "Registration Complete"
                                ELSE "Registration Info")
                  /\ worker_thread' = (IF worker_thread = None THEN None
                                       ELSE "stopped")
                  /\ threads_running' = threads_running - 1
                  /\ UNCHANGED << image_data, current_image_idx, worker,
                                  ui_enabled >>
             [] m.sig = "thread_finished" ->
                  /\ _on_worker_thread_finished
                  /\ UNCHANGED << image_data, current_image_idx, msgbox,
                                  threads_running >>
    /\ UNCHANGED << ref_image_idx, anchor_rect_img_coords, reg_method, clicks,
                    calc, selVars >>

(* --------------------------- specifications ---------------------------- *)
WorkerNext ==
    \/ RegLoopTop
    \/ \E out \in Outcomes : RegProcess(out)
    \/ RegFinish
    \/ \E io_ok \in BOOLEAN : MorphStart(io_ok)
    \/ \E io_ok \in BOOLEAN : MorphPair(io_ok)
    \/ \E io_ok \in BOOLEAN : MorphInterp(io_ok)
    \/ \E io_ok \in BOOLEAN : MorphAfter(io_ok)
    \/ MorphFinish

Next ==
    \/ \E folder \in Folders : loadFolder(folder)
    \/ \E row \in 0..NumImages : item_changed(row)
    \/ \E row \in 0..NumImages : check_state_changed(row)
    \/ \E m \in Methods : select_method(m)
    \/ \E t \in AnchorTexts : apply_anchor_from_inputs(t)
    \/ clear_anchor_area
    \/ \E start \in DragStarts, end \in DragEnds, zoom \in ZoomFactors :
           eventFilter(start, end, zoom)
    \/ \E d \in ClickedDirections, t \in ShiftTexts : translate_image(d, t)
    \/ \E t \in RotTexts, cv_ok \in BOOLEAN : apply_text_rotation(t, cv_ok)
    \/ \E d \in {"Left", "Right"}, cv_ok \in BOOLEAN :
           rotate_image_incremental(d, cv_ok)
    \/ \E is_checked \in BOOLEAN : toggle_set_ref_mode(is_checked)
    \/ \E is_checked \in BOOLEAN : toggle_set_cur_mode(is_checked)
    \/ \E label_point \in LabelClicks, zoom \in ZoomFactors :
           handle_ref_label_click(label_point, zoom)
    \/ \E label_point \in LabelClicks, zoom \in ZoomFactors :
           handle_current_label_click(label_point, zoom)
    \/ clear_ref_points
    \/ clear_current_points
    \/ \E cv_ok \in BOOLEAN : calculate_rotation_from_points(cv_ok)
    \/ \E mode \in StartModes, t \in StepTexts : start_registration(mode, t)
    \/ \E t \in FpsTexts, save \in {"cancelled", "oserror", "ok"} :
           start_morphing(t, save)
    \/ cancel_worker
    \/ DeliverSignal
    \/ WorkerNext

Spec == Init /\ [][Next]_vars

(* ------------- a session on a folder of one more image ----------------- *)
\* the state after loadFolder of a folder of NumImages + 1 files, a selection,
\* a reference, a method and possibly an anchor; one edit or batch remains
InitBatch ==
    /\ image_data = LoadedImages("more")
    /\ ref_image_idx \in 0..NumImages
    /\ current_image_idx \in 0..NumImages
    /\ anchor_rect_img_coords \in
           {NoAnchor, [set |-> TRUE, x |-> 1, y |-> 1, w |-> ImgW - 2, h |-> ImgH - 2]}
    /\ reg_method \in Methods
    /\ worker = NoWorker
    /\ worker_thread = None
    /\ progress_dialog = None
    /\ ui_enabled = TRUE
    /\ msgbox = ""
    /\ inbox = << >>
    /\ threads_running = 0
    /\ clicks = MaxClicks - 1
    /\ calc = NoCalc
    /\ checked = {ref_image_idx}
    /\ ref_points = << >>
    /\ current_points = << >>
    /\ setting_ref_points = FALSE
    /\ setting_current_points = FALSE

SpecBatch == InitBatch /\ [][Next]_vars

\* the worker thread runs until run() returns and the event loop of the main
\* thread runs the slot of every queued signal
SpecBatchFair == SpecBatch /\ WF_vars(WorkerNext) /\ WF_vars(DeliverSignal)

(* ------------------ a session with points picked ----------------------- *)
\* the image points the clicks of LabelClicks give at zoom 1
PickedPoints == { << >>, << <<0, 0>> >>, << <<0, 0>>, <<0, 0>> >>,
                  << <<0, 0>>, <<1, 0>> >>, << <<0, 0>>, <<1, 1>> >>,
                  << <<0, 0>>, <<2, 1>> >> }

\* the state after loadFolder, a selection, a reference, up to two clicks
\* on each label and a selection mode entered or left
InitPoints ==
    /\ image_data = LoadedImages("pics")
    /\ ref_image_idx \in 0..(NumImages - 1)
    /\ current_image_idx \in 0..(NumImages - 1)
    /\ anchor_rect_img_coords = NoAnchor
    /\ reg_method = "fft"
    /\ worker = NoWorker
    /\ worker_thread = None
    /\ progress_dialog = None
    /\ ui_enabled = TRUE
    /\ msgbox = ""
    /\ inbox = << >>
    /\ threads_running = 0
    /\ clicks = 0
    /\ calc = NoCalc
    /\ checked = {ref_image_idx}
    /\ ref_points \in PickedPoints
    /\ current_points \in PickedPoints
    /\ setting_ref_points \in BOOLEAN
    /\ setting_current_points \in BOOLEAN
    /\ ~(setting_ref_points /\ setting_current_points)

\* the list, the two labels and the rotation controls, with no batch started
NextPoints ==
    \/ \E folder \in Folders : loadFolder(folder)
    \/ \E row \in 0..NumImages : item_changed(row)
    \/ \E row \in 0..NumImages : check_state_changed(row)
    \/ \E is_checked \in BOOLEAN : toggle_set_ref_mode(is_checked)
    \/ \E is_checked \in BOOLEAN : toggle_set_cur_mode(is_checked)
    \/ \E label_point \in LabelClicks, zoom \in ZoomFactors :
           handle_ref_label_click(label_point, zoom)
    \/ \E label_point \in LabelClicks, zoom \in ZoomFactors :
           handle_current_label_click(label_point, zoom)
    \/ clear_ref_points
    \/ clear_current_points
    \/ \E t \in RotTexts, cv_ok \in BOOLEAN : apply_text_rotation(t, cv_ok)
    \/ \E cv_ok \in BOOLEAN : calculate_rotation_from_points(cv_ok)

SpecPoints == InitPoints /\ [][NextPoints]_vars

(* ---------------------- arrays of pixel values -------------------------- *)
\* a grey image is a sequence of rows of pixel values; rows and columns are
\* counted from 1 here and from 0 in the source
Rows(img) == Len(img)
Cols(img) == IF Len(img) = 0 THEN 0 ELSE Len(img[1])
PixelShape(img) == << Rows(img), Cols(img) >>

\* the bounds of a Python slice a[start:stop] with 0 <= start on an axis of
\* length n, as the first and last index counted from 1
SliceLast(stop, n) == IF stop > n THEN n ELSE stop

\* img[y0:y1, x0:x1] for 0 <= y0 and 0 <= x0
Slice(img, y0, y1, x0, x1) ==
    [y \in 1..(SliceLast(y1, Rows(img)) - y0) |->
        [x \in 1..(SliceLast(x1, Cols(img)) - x0) |-> img[y0 + y][x0 + x]]]

\* np.sum((a - b) ** 2) for two arrays of one shape
RECURSIVE SumOver(_, _)
SumOver(f, S) ==
    IF S = {} THEN 0
    ELSE LET e == CHOOSE e \in S : TRUE
         IN  f[e] + SumOver(f, S \ {e})

SSD(a, b) ==
    LET cells == (1..Rows(a)) \X (1..Cols(a))
        sq == [c \in cells |-> (a[c[1]][c[2]] - b[c[1]][c[2]]) * (a[c[1]][c[2]] - b[c[1]][c[2]])]
    IN  SumOver(sq, cells)

\* variant of np_roll: the displacement goes the other way
np_roll_Reversed(img, sy, sx) ==
    LET h == Rows(img)
        w == Cols(img)
    IN  [y \in 1..h |-> [x \in 1..w |->
            img[((y - 1 + sy) % h) + 1][((x - 1 + sx) % w) + 1]]]

\* np.roll(img, (sy, sx), axis=(0, 1)): cyclic displacement
np_roll(img, sy, sx) ==
    LET h == Rows(img)
        w == Cols(img)
    IN  [y \in 1..h |-> [x \in 1..w |->
            img[((y - 1 - sy) % h) + 1][((x - 1 - sx) % w) + 1]]]

\* variant of ZeroedIndices: nothing is zeroed after the roll
ZeroedIndices_None(n, len) == {}

\* a[:n] = 0 for n > 0 and a[n:] = 0 for n < 0 on an axis of length len: the
\* set of indices (from 1) that are zeroed
ZeroedIndices(n, len) ==
    IF n > 0 THEN 1..SliceLast(n, len)
    ELSE IF n < 0 THEN ((IF len + n < 0 THEN 0 ELSE len + n) + 1)..len
    ELSE {}

\* corrected_image[rows, :] = 0 and corrected_image[:, cols] = 0
ZeroFill(img, rows, cols) ==
    [y \in 1..Rows(img) |-> [x \in 1..Cols(img) |->
        IF y \in rows \/ x \in cols THEN 0 ELSE img[y][x]]]

\* RegistrationWorker.run, lines 158-163: the shift applied to a target
ApplyShift(img, shift_x_int, shift_y_int) ==
    ZeroFill(np_roll(img, shift_y_int, shift_x_int),
             ZeroedIndices(shift_y_int, Rows(img)),
             ZeroedIndices(shift_x_int, Cols(img)))

(* ------------------------- _register_scan_ssd -------------------------- *)
\* variant of ScanRangeLen: the range ends before scan_range_pixels
ScanRangeLen_Exclusive(step_size) == ((2 * scan_range_pixels - 1) \div step_size) + 1

\* range(-scan_range_pixels, scan_range_pixels + 1, step_size): the number of
\* its values and its k-th value
ScanRangeLen(step_size) == ((2 * scan_range_pixels) \div step_size) + 1
ScanRangeAt(k, step_size) == (k - 1) * step_size - scan_range_pixels

\* no candidate compared so far: min_ssd = np.inf, best_dx = best_dy = 0
ScanStart == [found |-> FALSE, min_ssd |-> 0, best_dx |-> 0, best_dy |-> 0]

\* variant of ScanUpdate: a candidate that ties with the minimum replaces it
ScanUpdate_LastWins(acc, ssd, dx, dy) ==
    IF ~acc.found \/ ssd <= acc.min_ssd
    THEN [found |-> TRUE, min_ssd |-> ssd, best_dx |-> dx, best_dy |-> dy]
    ELSE acc

\* lines 397-401: if ssd < min_ssd, the candidate becomes the best one
ScanUpdate(acc, ssd, dx, dy) ==
    IF ~acc.found \/ ssd < acc.min_ssd
    THEN [found |-> TRUE, min_ssd |-> ssd, best_dx |-> dx, best_dy |-> dy]
    ELSE acc

\* lines 387-388: the boundary check of a candidate
ScanBoundaryCheck(anchor_details, dx, dy, img_h, img_w) ==
    LET curr_y_start == anchor_details.y + dy
        curr_y_end == curr_y_start + anchor_details.h
        curr_x_start == anchor_details.x + dx
        curr_x_end == curr_x_start + anchor_details.w
    IN  /\ 0 <= curr_y_start /\ curr_y_end <= img_h
        /\ 0 <= curr_x_start /\ curr_x_end <= img_w

\* lines 380-401: the body of the loops for one candidate
ScanCandidate(acc, ref_anchor, current_grey, anchor_details, dx, dy) ==
    LET curr_y_start == anchor_details.y + dy
        curr_x_start == anchor_details.x + dx
        current_shifted_anchor ==
            Slice(current_grey, curr_y_start, curr_y_start + anchor_details.h,
                  curr_x_start, curr_x_start + anchor_details.w)
    IN  IF /\ ScanBoundaryCheck(anchor_details, dx, dy,
                                Rows(current_grey), Cols(current_grey))
           /\ PixelShape(current_shifted_anchor) = PixelShape(ref_anchor)
        THEN ScanUpdate(acc, SSD(current_shifted_anchor, ref_anchor), dx, dy)
        ELSE acc

\* the inner loop over dx from its k-th value on; each pass is computed
\* before the next one starts
RECURSIVE ScanRow(_, _, _, _, _, _, _)
ScanRow(acc, k, ref_anchor, current_grey, anchor_details, step_size, dy) ==
    IF k > ScanRangeLen(step_size) THEN acc
    ELSE LET pass == ScanCandidate(acc, ref_anchor, current_grey, anchor_details,
                                   ScanRangeAt(k, step_size), dy)
         IN  IF pass = acc
             THEN ScanRow(acc, k + 1, ref_anchor, current_grey, anchor_details,
                          step_size, dy)
             ELSE ScanRow(pass, k + 1, ref_anchor, current_grey, anchor_details,
                          step_size, dy)

\* the outer loop over dy from its k-th value on
RECURSIVE ScanRows(_, _, _, _, _, _)
ScanRows(acc, k, ref_anchor, current_grey, anchor_details, step_size) ==
    IF k > ScanRangeLen(step_size) THEN acc
    ELSE LET pass == ScanRow(acc, 1, ref_anchor, current_grey, anchor_details,
                             step_size, ScanRangeAt(k, step_size))
         IN  IF pass = acc
             THEN ScanRows(acc, k + 1, ref_anchor, current_grey, anchor_details,
                           step_size)
             ELSE ScanRows(pass, k + 1, ref_anchor, current_grey, anchor_details,
                           step_size)

\* variant of ScanReturn: the best offset is returned in any case
ScanReturn_AlwaysBest(acc) == [found |-> TRUE, dx |-> acc.best_dx, dy |-> acc.best_dy]

\* lines 407-410: (None, None) when min_ssd is still np.inf, written as
\* found = FALSE, otherwise (best_dx, best_dy)
ScanReturn(acc) == [found |-> acc.found, dx |-> acc.best_dx, dy |-> acc.best_dy]

\* _register_scan_ssd
_register_scan_ssd(ref_anchor, current_grey, anchor_details, step_size) ==
    ScanReturn(ScanRows(ScanStart, 1, ref_anchor, current_grey, anchor_details,
                        step_size))

(* --------------- one target of a scan batch, pixel by pixel ------------ *)
\* grey images of ImgH rows and ImgW columns: uniform, all pixels distinct,
\* vertical stripes, and one bright pixel
UniformImage == [y \in 1..ImgH |-> [x \in 1..ImgW |-> 0]]
RampImage == [y \in 1..ImgH |-> [x \in 1..ImgW |-> (y - 1) * ImgW + x]]
StripedImage == [y \in 1..ImgH |-> [x \in 1..ImgW |-> x % 2]]
DotImage(py, px) ==
    [y \in 1..ImgH |-> [x \in 1..ImgW |-> IF y = py /\ x = px THEN 1 ELSE 0]]
GreyImages == {UniformImage, RampImage, StripedImage, DotImage(1, 1), DotImage(2, 2)}

\* the targets compared with a reference: the reference itself, the reference
\* displaced by one pixel, and a smaller image
TargetsOf(ref_grey) ==
    {ref_grey, Slice(ref_grey, 0, ImgH - 1, 0, ImgW - 1)}
        \cup { ApplyShift(ref_grey, sx, sy) : sx \in {-1, 0, 1}, sy \in {-1, 0, 1} }

\* anchors apply_anchor_from_inputs accepts for an image: squares of one or
\* two pixels, and the rectangles of the image's size and one pixel less
ValidAnchors(img) ==
    { r \in [x : 0..Cols(img), y : 0..Rows(img), w : 1..Cols(img), h : 1..Rows(img)] :
         /\ r.x + r.w <= Cols(img) /\ r.y + r.h <= Rows(img)
         /\ \/ r.w = r.h /\ r.w <= 2
            \/ r.w >= Cols(img) - 1 /\ r.h >= Rows(img) - 1 }

\* the step sizes start_registration passes on: any integer from 1 on
ScanSteps == {1, 2, scan_range_pixels + 1}

\* images of one row, wide enough for the largest offset of the scan: the
\* reference has its bright pixel in the first column, the target in column n
StripImage(n) ==
    [y \in 1..1 |-> [x \in 1..(scan_range_pixels + 2) |-> IF x = n THEN 1 ELSE 0]]
StripTargets == { StripImage(1), StripImage(scan_range_pixels + 1) }
StripSteps == {1, scan_range_pixels}

\* the scan branch of RegistrationWorker.run about to call the estimator
ScanCallOf(r, c, a, st) ==
    [op |-> "scan", pc |-> "call", ref_grey |-> r, current_grey |-> c,
     anchor_details |-> a, step_size |-> st,
     result |-> [found |-> FALSE, dx |-> 0, dy |-> 0],
     registered_count |-> 0, errors |-> 0, image_updated |-> << >>]

(* ------------------------ _register_scan_ssd_rot ----------------------- *)
\* scan_range_degrees and step_size of _register_scan_ssd_rot, in hundredths
\* of a degree
scan_range_degrees == 500
rot_step_size == 20

\* np.arange(-scan_range_degrees, scan_range_degrees + step_size, step_size)
ScanAngles ==
    { k * rot_step_size - scan_range_degrees :
        k \in 0..((2 * scan_range_degrees) \div rot_step_size) }

\* the angles at which the rotated patch may differ least from the reference
\* patch: the rotated pixels come from OpenCV
BestAngles == { a \in ScanAngles : a \in {-scan_range_degrees, 0, rot_step_size} }

\* the shape of rot[y_start:y_end, x_start:x_end] for rot of shape (h, w)
ClippedShape(shape, a) ==
    << IF SliceLast(a.y + a.h, shape[1]) - a.y < 0 THEN 0
       ELSE SliceLast(a.y + a.h, shape[1]) - a.y,
       IF SliceLast(a.x + a.w, shape[2]) - a.x < 0 THEN 0
       ELSE SliceLast(a.x + a.w, shape[2]) - a.x >>

\* _register_scan_ssd_rot for a target of shape current_shape: best is the
\* angle of least difference among those compared, cv_ok whether OpenCV
\* rotates; a failed rotation is subscripted and raises
_register_scan_ssd_rot(ref_anchor_shape, current_shape, anchor_details, best, cv_ok) ==
    IF ~cv_ok THEN [raised |-> TRUE, compared |-> FALSE, angle |-> 0]
    ELSE IF ClippedShape(current_shape, anchor_details) = ref_anchor_shape
    THEN [raised |-> FALSE, compared |-> TRUE, angle |-> best]
    ELSE [raised |-> FALSE, compared |-> FALSE, angle |-> 0]

\* the scan_rot branch of RegistrationWorker.run about to call the estimator
ScanRotCallOf(r, c, a, rot) ==
    [op |-> "scan_rot", pc |-> "call", ref_grey |-> r, current_grey |-> c,
     anchor_details |-> a, total_rotation |-> rot,
     result |-> [raised |-> FALSE, compared |-> FALSE, angle |-> 0],
     registered_count |-> 0, errors |-> 0, rotation_updated |-> << >>]

(* ------------------ a shift of an image, pixel by pixel ---------------- *)
\* the images shifted: all pixels distinct and not zero, in two shapes, and
\* one bright pixel
ShiftedImages == {RampImage, Slice(RampImage, 0, ImgH - 1, 0, ImgW), DotImage(2, 2)}

\* the integer shifts an estimator may hand to the worker, and the contents
\* of the shift text box: up to one pixel beyond the image size
EstimatorShifts == (-(ImgW + 1))..(ImgW + 1)
ShiftVals == 1..(ImgW + 1)

\* the displacement (dx, dy) of a direction button
DirectionShift(direction, shift_val) ==
    CASE direction = "Left" -> << -shift_val, 0 >>
      [] direction = "Right" -> << shift_val, 0 >>
      [] direction = "Up" -> << 0, -shift_val >>
      [] direction = "Down" -> << 0, shift_val >>

\* an image about to be shifted by (dx, dy): by the worker with the shift of
\* an estimator, or by translate_image for a direction button
ShiftCallOf(by, img, direction, dx, dy) ==
    [op |-> "shift", pc |-> "call", by |-> by, image |-> img,
     direction |-> direction, dx |-> dx, dy |-> dy,
     registered_count |-> 0, image_updated |-> << >>, restored |-> << >>]

\* translate_image, lines 40, 47, 54 and 61: the shift is not below the size
TooLarge(shift_val, size) == ~(shift_val < size)

\* translate_image, lines 37-69, on pixels: the buffer stored in image_data,
\* or none when the shift is too large and translate_image returns
translate_pixels(current_im, direction, shift_val) ==
    LET rows == Rows(current_im)
        cols == Cols(current_im)
    IN  CASE direction = "Left" ->
               IF TooLarge(shift_val, cols) THEN << >>
               ELSE << ZeroFill(np_roll(current_im, 0, -shift_val), {},
                                ZeroedIndices(-shift_val, cols)) >>
          [] direction = "Right" ->
               IF TooLarge(shift_val, cols) THEN << >>
               ELSE << ZeroFill(np_roll(current_im, 0, shift_val), {},
                                ZeroedIndices(shift_val, cols)) >>
          [] direction = "Up" ->
               IF TooLarge(shift_val, rows) THEN << >>
               ELSE << ZeroFill(np_roll(current_im, -shift_val, 0),
                                ZeroedIndices(-shift_val, rows), {}) >>
          [] direction = "Down" ->
               IF TooLarge(shift_val, rows) THEN << >>
               ELSE << ZeroFill(np_roll(current_im, shift_val, 0),
                                ZeroedIndices(shift_val, rows), {}) >>
          [] OTHER -> << >>

\* what _register_fft can return for a pair of images: (None, None), or
\* offsets (xoff, yoff) in tenths of a pixel
FftResults ==
    { [kind |-> "none", xoff |-> 0, yoff |-> 0] }
    \cup { [kind |-> "offsets", xoff |-> x, yoff |-> y] :
             x \in {-15, -5, 0, 6, 15}, y \in {0, 5, 14} }

\* the FFT branch of RegistrationWorker.run about to call the estimator
FftCallOf(r, c, has_anchor, a) ==
    [op |-> "fft", pc |-> "call", ref_grey |-> r, current_grey |-> c,
     has_anchor |-> has_anchor, anchor_details |-> a,
     given |-> << >>, result |-> [kind |-> "none", xoff |-> 0, yoff |-> 0],
     registered_count |-> 0, errors |-> 0, image_updated |-> << >>]

\* RegistrationWorker.run, lines 94-108: ref_grey_reg and current_grey_reg,
\* the anchor patches when there is an anchor that lies inside the target
\* and the whole images otherwise
FftInputs(ref_grey, current_grey, has_anchor, a) ==
    IF has_anchor /\ AnchorValidFor(a, PixelShape(current_grey))
    THEN << Slice(ref_grey, a.y, a.y + a.h, a.x, a.x + a.w),
            Slice(current_grey, a.y, a.y + a.h, a.x, a.x + a.w) >>
    ELSE << ref_grey, current_grey >>

\* variant of FftShift: the offset is truncated
FftShift_Truncated(off) ==
    -(IF off >= 0 THEN off \div 10 ELSE -((-off) \div 10))

\* RegistrationWorker.run, lines 112-113: -int(round(off)) for an offset in
\* tenths of a pixel
FftShift(off) == -RoundHalfEven(off, 10)

InitPixels ==
    /\ image_data = << >>
    /\ ref_image_idx = -1
    /\ current_image_idx = -1
    /\ anchor_rect_img_coords = NoAnchor
    /\ reg_method = "scan"
    /\ worker = NoWorker
    /\ worker_thread = None
    /\ progress_dialog = None
    /\ ui_enabled = TRUE
    /\ msgbox = ""
    /\ inbox = << >>
    /\ threads_running = 0
    /\ clicks = 0
    /\ checked = {}
    /\ ref_points = << >>
    /\ current_points = << >>
    /\ setting_ref_points = FALSE
    /\ setting_current_points = FALSE
    /\ \E r \in GreyImages : \E c \in TargetsOf(r) : \E a \in ValidAnchors(r) :
         \/ \E st \in ScanSteps : calc = ScanCallOf(r, c, a, st)
         \/ /\ r = UniformImage /\ c = r /\ a = [x |-> 0, y |-> 0, w |-> 1, h |-> 1]
            /\ \E t \in StripTargets, st \in StripSteps :
                 calc = ScanCallOf(StripImage(1), t, a, st)
         \/ \E rot \in RotDeltas : calc = ScanRotCallOf(r, c, a, rot)
         \/ /\ r = RampImage /\ c \in {r, Slice(r, 0, ImgH - 1, 0, ImgW - 1)}
            /\ \E has_anchor \in BOOLEAN : calc = FftCallOf(r, c, has_anchor, a)
         \/ /\ r = RampImage /\ c = r /\ a = [x |-> 0, y |-> 0, w |-> 1, h |-> 1]
            /\ \E img \in ShiftedImages :
                 \/ \E dx \in EstimatorShifts, dy \in EstimatorShifts :
                       calc = ShiftCallOf("worker", img, "none", dx, dy)
                 \/ \E d \in Directions, v \in ShiftVals :
                       calc = ShiftCallOf("translate", img, d,
                                          DirectionShift(d, v)[1], DirectionShift(d, v)[2])

sessionVars == << image_data, ref_image_idx, current_image_idx,
                  anchor_rect_img_coords, reg_method, worker, worker_thread,
                  progress_dialog, ui_enabled, msgbox, inbox, threads_running,
                  clicks, selVars >>

\* start_registration, line 1471: the reference patch handed to the worker
RefAnchor(ref_grey, a) == Slice(ref_grey, a.y, a.y + a.h, a.x, a.x + a.w)

\* RegistrationWorker.run, line 128: the call of _register_scan_ssd
ScanCall ==
    /\ calc.op = "scan" /\ calc.pc = "call"
    /\ calc' = [calc EXCEPT
                  !.pc = "returned",
                  !.result = _register_scan_ssd(
                                 RefAnchor(calc.ref_grey, calc.anchor_details),
                                 calc.current_grey, calc.anchor_details,
                                 calc.step_size)]
    /\ UNCHANGED sessionVars

\* RegistrationWorker.run, lines 130-131: shift_y_int = -yoff, shift_x_int = -xoff
CorrectiveShift(off) == -off

\* RegistrationWorker.run, lines 129-135 and 155-170: the result is applied
ScanApply ==
    /\ calc.op = "scan" /\ calc.pc = "returned"
    /\ LET shift_y_int == CorrectiveShift(calc.result.dy)
           shift_x_int == CorrectiveShift(calc.result.dx)
       IN  calc' =
             IF ~calc.result.found
             THEN [calc EXCEPT !.pc = "done", !.errors = @ + 1]
             ELSE IF Abs(shift_y_int) > 0 \/ Abs(shift_x_int) > 0
             THEN [calc EXCEPT
                     !.pc = "done", !.registered_count = @ + 1,
                     !.image_updated =
                         << ApplyShift(calc.current_grey, shift_x_int, shift_y_int) >>]
             ELSE [calc EXCEPT !.pc = "done", !.registered_count = @ + 1]
    /\ UNCHANGED sessionVars

\* RegistrationWorker.run, line 141: the call of _register_scan_ssd_rot
ScanRotCall(best, cv_ok) ==
    /\ calc.op = "scan_rot" /\ calc.pc = "call"
    /\ calc' = [calc EXCEPT
                  !.pc = "returned",
                  !.result = _register_scan_ssd_rot(
                                 PixelShape(RefAnchor(calc.ref_grey, calc.anchor_details)),
                                 PixelShape(calc.current_grey),
                                 calc.anchor_details, best, cv_ok)]
    /\ UNCHANGED sessionVars

\* RegistrationWorker.run, lines 142-147, 167-196 and 198-206: the result is
\* applied; cv_ok is whether OpenCV rotates the target
ScanRotApply(cv_ok) ==
    /\ calc.op = "scan_rot" /\ calc.pc = "returned"
    /\ LET rot_angle == calc.result.angle
           new_total_rotation == calc.total_rotation + rot_angle
       IN  calc' =
             IF calc.result.raised
             THEN [calc EXCEPT !.pc = "done", !.errors = @ + 1]
             ELSE IF Abs(rot_angle) > 0
             THEN IF cv_ok
                  THEN [calc EXCEPT !.pc = "done", !.registered_count = @ + 1,
                                    !.rotation_updated = << new_total_rotation >>]
                  ELSE [calc EXCEPT !.pc = "done", !.errors = @ + 1]
             ELSE [calc EXCEPT !.pc = "done", !.registered_count = @ + 1]
    /\ UNCHANGED sessionVars

\* RegistrationWorker.run, lines 155-170: the shift of an estimator is applied
WorkerShift ==
    /\ calc.op = "shift" /\ calc.by = "worker" /\ calc.pc = "call"
    /\ LET shift_x_int == calc.dx
           shift_y_int == calc.dy
       IN  calc' =
             IF Abs(shift_y_int) > 0 \/ Abs(shift_x_int) > 0
             THEN [calc EXCEPT
                     !.pc = "done", !.registered_count = @ + 1,
                     !.image_updated =
                         << ApplyShift(calc.image, shift_x_int, shift_y_int) >>]
             ELSE [calc EXCEPT !.pc = "done", !.registered_count = @ + 1]
    /\ UNCHANGED sessionVars

\* translate_image on the pixels of the current image; image_updated holds
\* the buffer stored in image_data, if one is stored
TranslatePixels ==
    /\ calc.op = "shift" /\ calc.by = "translate" /\ calc.pc = "call"
    /\ LET shift_val == Abs(calc.dx) + Abs(calc.dy)
       IN  calc' = [calc EXCEPT
                     !.pc = "done",
                     !.image_updated =
                         translate_pixels(calc.image, calc.direction, shift_val)]
    /\ UNCHANGED sessionVars

\* the buffer of the image after the operation: the one stored or emitted, or
\* the old one when none was
BufferAfter(k) == IF k.image_updated = << >> THEN k.image ELSE k.image_updated[1]

\* the button of translate_image that moves the other way
Opposite(direction) ==
    CASE direction = "Left" -> "Right"
      [] direction = "Right" -> "Left"
      [] direction = "Up" -> "Down"
      [] direction = "Down" -> "Up"

\* RegistrationWorker.run, lines 155-170, in a later batch whose estimator
\* yields the inverse shift for the image as it is by now
WorkerShiftBack ==
    /\ calc.op = "shift" /\ calc.by = "worker" /\ calc.pc = "done"
    /\ LET shift_x_int == -calc.dx
           shift_y_int == -calc.dy
       IN  calc' =
             IF Abs(shift_y_int) > 0 \/ Abs(shift_x_int) > 0
             THEN [calc EXCEPT
                     !.pc = "back",
                     !.restored =
                         << ApplyShift(BufferAfter(calc), shift_x_int, shift_y_int) >>]
             ELSE [calc EXCEPT !.pc = "back"]
    /\ UNCHANGED sessionVars

\* translate_image for the opposite button with the same shift value
TranslateBack ==
    /\ calc.op = "shift" /\ calc.by = "translate" /\ calc.pc = "done"
    /\ LET shift_val == Abs(calc.dx) + Abs(calc.dy)
       IN  calc' = [calc EXCEPT
                     !.pc = "back",
                     !.restored =
                         translate_pixels(BufferAfter(calc),
                                          Opposite(calc.direction), shift_val)]
    /\ UNCHANGED sessionVars

\* RegistrationWorker.run, lines 94-110: the call of _register_fft; est is
\* what chi2_shift makes of the two arrays
FftCall(est) ==
    /\ calc.op = "fft" /\ calc.pc = "call"
    /\ calc' = [calc EXCEPT
                  !.pc = "returned",
                  !.given = FftInputs(calc.ref_grey, calc.current_grey,
                                      calc.has_anchor, calc.anchor_details),
                  !.result = est]
    /\ UNCHANGED sessionVars

\* RegistrationWorker.run, lines 111-117, 155-165 and 198: the result is
\* applied
FftApply ==
    /\ calc.op = "fft" /\ calc.pc = "returned"
    /\ LET shift_y_int == FftShift(calc.result.yoff)
           shift_x_int == FftShift(calc.result.xoff)
       IN  calc' =
             IF calc.result.kind = "none"
             THEN [calc EXCEPT !.pc = "done", !.errors = @ + 1]
             ELSE IF Abs(shift_y_int) > 0 \/ Abs(shift_x_int) > 0
             THEN [calc EXCEPT
                     !.pc = "done", !.registered_count = @ + 1,
                     !.image_updated =
                         << ApplyShift(calc.current_grey, shift_x_int, shift_y_int) >>]
             ELSE [calc EXCEPT !.pc = "done", !.registered_count = @ + 1]
    /\ UNCHANGED sessionVars

NextPixels ==
    \/ \E est \in FftResults : FftCall(est)
    \/ FftApply
    \/ WorkerShift
    \/ TranslatePixels
    \/ WorkerShiftBack
    \/ TranslateBack
    \/ ScanCall
    \/ ScanApply
    \/ \E best \in BestAngles, cv_ok \in BOOLEAN : ScanRotCall(best, cv_ok)
    \/ \E cv_ok \in BOOLEAN : ScanRotApply(cv_ok)

SpecPixels == InitPixels /\ [][NextPixels]_vars

(* ------------------- the workers run on their own ---------------------- *)
\* the elements of a set of integers in ascending order
RECURSIVE Ascending(_)
Ascending(S) ==
    IF S = {} THEN << >>
    ELSE LET m == CHOOSE x \in S : \A y \in S : x <= y
         IN  << m >> \o Ascending(S \ {m})

\* an image list of n entries; rotated entries carry their original
WorkerImageList(n, rotated, tall) ==
    [k \in 0..(n - 1) |->
        LET p == IF k \in tall THEN PristineOf(k, ImgH + 1, ImgW) ELSE Pristine(k)
        IN  IF rotated
            THEN [name |-> k, image |-> Rotated(p, 10), total_rotation |-> 10,
                  image_orig |-> p]
            ELSE [name |-> k, image |-> p, total_rotation |-> 0,
                  image_orig |-> NoOrig]]

WorkerAnchor == [x |-> 0, y |-> 0, w |-> 2, h |-> 2]

RegistrationWorkerInputs ==
    { RegistrationWorker(WorkerImageList(n, rotated, {}), 0, Ascending(S),
                         m, WorkerAnchor, a, 1) :
        n \in 0..MaxWorkerImages,
        rotated \in BOOLEAN,
        S \in SUBSET (0..MaxWorkerImages),
        m \in Methods \cup {"bogus"},
        a \in {None, "patch"} }

MorphWorkerInputs ==
    { MorphWorker(WorkerImageList(n, FALSE, tall), f) :
        n \in 0..MaxWorkerImages,
        tall \in SUBSET (1..(MaxWorkerImages - 1)),
        f \in 2..(MaxFps + 1) }

InitWorkers ==
    /\ image_data = << >>
    /\ ref_image_idx = -1
    /\ current_image_idx = -1
    /\ anchor_rect_img_coords = NoAnchor
    /\ reg_method = "fft"
    /\ worker \in RegistrationWorkerInputs \cup MorphWorkerInputs
    /\ worker_thread = "running"
    /\ progress_dialog = None
    /\ ui_enabled = FALSE
    /\ msgbox = ""
    /\ inbox = << >>
    /\ threads_running = 1
    /\ clicks = 0
    /\ calc = NoCalc
    /\ checked = {}
    /\ ref_points = << >>
    /\ current_points = << >>
    /\ setting_ref_points = FALSE
    /\ setting_current_points = FALSE

NextWorkers == WorkerNext \/ cancel

SpecWorkers == InitWorkers /\ [][NextWorkers]_vars

\* the worker thread, once started, runs until run() returns
SpecWorkersFair == SpecWorkers /\ WF_vars(WorkerNext)

(* ------------------------------ properties ----------------------------- *)
SigsOf(w, kinds) == SelectSeq(w.emitted, LAMBDA m : m.sig \in kinds)
FinishedEmits(w) == Len(SigsOf(w, {"finished"}))
LastEmitted(w) == w.emitted[Len(w.emitted)]
NumToProcess(w) == Len(w.indices_to_register)

\* C1: at most one worker thread runs at a time, and a start_registration or
\* start_morphing entered while the thread runs shows "Busy" and changes
\* neither worker, thread, dialog, controls, queue nor image data.
C1_OneWorkerAtATime ==
    /\ [](threads_running <= 1)
    /\ [][ (/\ ThreadRunning
            /\ \/ \E mode \in StartModes, t \in StepTexts :
                      start_registration(mode, t)
               \/ \E t \in FpsTexts, save \in {"cancelled", "oserror", "ok"} :
                      start_morphing(t, save)) =>
              /\ msgbox' = "Busy"
              /\ UNCHANGED << worker, worker_thread, progress_dialog,
                              ui_enabled, inbox, threads_running, image_data,
                              ref_image_idx, current_image_idx >> ]_vars

C1_Witness ==
    /\ msgbox = "Busy" /\ ThreadRunning /\ threads_running = 1
    /\ worker.kind # "none" /\ worker.pc # "done"

\* C2: a run emits `finished' exactly once, as its last signal, whichever
\* way it ends, and every run ends.
C2_FinishedInv ==
    worker.kind # "none" =>
        /\ (worker.pc # "done" => FinishedEmits(worker) = 0)
        /\ (worker.pc = "done" =>
               /\ FinishedEmits(worker) = 1
               /\ LastEmitted(worker).sig = "finished")

C2_FinishedExactlyOnce == []C2_FinishedInv /\ <>(worker.pc = "done")

C2_Witness ==
    /\ worker.pc = "done" /\ worker.is_cancelled
    /\ Len(worker.emitted) > 2
    /\ ErrorSig \notin { worker.emitted[k] : k \in 1..Len(worker.emitted) }

\* C3: when the cancel flag is set at the loop test of the k-th target the
\* loop is left there: nothing is emitted for a target at position >= k,
\* processed + errors <= k-1, processed < total, and finished(processed,
\* errors) is the last signal, with no error signal; for k = 1 the run emits
\* finished(0, 0) only.
C3_CancelledAt(w) ==
    /\ w.kind = "reg" /\ w.is_cancelled /\ w.last # "fatal"
    /\ w.pc \in {"finish", "done"}
    /\ w.i < NumToProcess(w)

C3_Inv ==
    C3_CancelledAt(worker) =>
        LET k == worker.i + 1
            done_targets == { worker.indices_to_register[j] : j \in 1..(k - 1) }
        IN  /\ worker.registered_count + worker.errors <= k - 1
            /\ worker.registered_count < NumToProcess(worker)
            /\ \A p \in 1..Len(worker.emitted) :
                 LET m == worker.emitted[p]
                 IN  /\ m.sig # "error"
                     /\ (m.sig = "progress" => m.a < k)
                     /\ (m.sig \in {"image_updated", "rotation_updated"}
                            => m.index \in done_targets)
            /\ (worker.pc = "done" =>
                   LastEmitted(worker) =
                       Finished2(worker.registered_count, worker.errors))
            /\ (worker.pc = "done" /\ k = 1 =>
                   worker.emitted = << Finished2(0, 0) >>)

C3_CancelBeforeK ==
    /\ []C3_Inv
    /\ [][ (/\ worker.kind = "reg" /\ worker.pc = "loop" /\ worker.is_cancelled
            /\ worker.i < NumToProcess(worker)
            /\ worker' # worker)
           => worker' = [worker EXCEPT !.pc = "finish"] ]_vars

C3_Witness ==
    /\ C3_CancelledAt(worker) /\ worker.pc = "done"
    /\ worker.i = 2 /\ worker.registered_count = 1 /\ worker.errors = 1
    /\ NumToProcess(worker) = 3

\* C4: while a batch exists the caller's image_data changes only by the slot
\* of a queued image_updated or rotation_updated signal, the worker's list is
\* the copy of image_data taken when the batch starts, and that copy never
\* changes afterwards, whatever the caller does to its own list.
BatchActive == worker.kind # "none" /\ worker_thread # None

C4_PrivateSnapshot ==
    /\ [][ (BatchActive /\ image_data' # image_data) =>
              /\ inbox # << >>
              /\ inbox' = Tail(inbox)
              /\ LET m == Head(inbox)
                 IN  \/ /\ m.sig = "image_updated"
                        /\ image_data' = [image_data EXCEPT
                                             ![m.index].image = m.image]
                     \/ /\ m.sig = "rotation_updated"
                        /\ image_data' = [image_data EXCEPT
                                             ![m.index].total_rotation = m.rot]
          ]_vars
    /\ [][ (worker.kind = "none" /\ worker'.kind # "none")
              => worker'.image_data_list = image_data ]_vars
    /\ [][ (worker.kind # "none" /\ worker'.kind # "none")
              => worker'.image_data_list = worker.image_data_list ]_vars

C4_Witness ==
    /\ BatchActive /\ worker.pc # "done"
    /\ \E k \in DOMAIN image_data :
          image_data[k].image # worker.image_data_list[k].image

\* C5: when no batch is in flight, every image's buffer has gone through no
\* rotation (and its total_rotation is 0) or through exactly one rotation,
\* by its total_rotation.
C5_SingleRotationByTotal ==
    worker_thread = None =>
        \A k \in DOMAIN image_data :
            LET rots == RotationsOf(image_data[k].image)
            IN  \/ rots = << >> /\ image_data[k].total_rotation = 0
                \/ rots = << image_data[k].total_rotation >>

\* C6: an image whose total_rotation differs from the loaded value 0 has an
\* image_orig, and that image_orig is a buffer no rotation has been applied to.
C6_OriginalCaptured ==
    \A k \in DOMAIN image_data :
        image_data[k].total_rotation # 0 =>
            /\ image_data[k].image_orig # NoOrig
            /\ RotationsOf(image_data[k].image_orig) = << >>

\* C7: an image_orig that is set stays as it is in every step, except a step
\* that replaces the image list by a freshly loaded one.
Reloaded(data) == data \in { LoadedImages(f) : f \in Folders }

C7_OriginalImmutable ==
    [][ \A k \in DOMAIN image_data :
           image_data[k].image_orig # NoOrig =>
              \/ /\ k \in DOMAIN image_data'
                 /\ image_data'[k].image_orig = image_data[k].image_orig
              \/ Reloaded(image_data') ]_vars

C7_Witness ==
    \E k \in DOMAIN image_data :
        /\ image_data[k].image_orig # NoOrig
        /\ image_data[k].total_rotation # 0
        /\ Len(image_data[k].image) > Len(image_data[k].image_orig) + 1

\* C8: a target that fails (no solution, missing anchor, unknown method,
\* failed rotation, exception) adds exactly one to errors and nothing to
\* registered_count, emits nothing, and the loop goes on to the next target;
\* every target adds one to exactly one of the two counters.
C8_PerItemFailure ==
    [][ (worker.kind = "reg" /\ worker.pc = "process" /\ worker'.pc # "process") =>
           /\ worker'.pc = "loop"
           /\ worker'.i = worker.i + 1
           /\ worker'.last \in {"ok", "no solution", "no anchor", "unknown method",
                                "rotation failed", "exception"}
           /\ (worker'.last = "ok" =>
                  /\ worker'.registered_count = worker.registered_count + 1
                  /\ worker'.errors = worker.errors)
           /\ (worker'.last # "ok" =>
                  /\ worker'.errors = worker.errors + 1
                  /\ worker'.registered_count = worker.registered_count
                  /\ worker'.emitted = worker.emitted)
           /\ SigsOf(worker', {"error", "finished"}) = << >> ]_vars

C8_Witness ==
    /\ worker.kind = "reg" /\ worker.pc = "done" /\ worker.last = "ok"
    /\ worker.errors = 2 /\ worker.registered_count = 1
    /\ worker.reg_method = "scan_rot"

\* C9 as stated: after a fatal error the run has emitted error and then
\* finished with the processed and error counts accumulated so far.
C9_FatalReportsAccumulatedCounts ==
    (worker.kind = "reg" /\ worker.last = "fatal") =>
        /\ worker.pc = "done"
        /\ Len(worker.emitted) >= 2
        /\ worker.emitted[Len(worker.emitted) - 1] = ErrorSig
        /\ LastEmitted(worker) =
               Finished2(worker.registered_count, worker.errors)

\* C9 amended: after a fatal error the run has stopped, has emitted error and
\* then finished exactly once, and finished carries the processed count
\* accumulated so far and, as error count, the number of requested targets
\* minus that processed count.
C9_FatalReportsRemainderAsErrors ==
    (worker.kind = "reg" /\ worker.last = "fatal") =>
        /\ worker.pc = "done"
        /\ Len(worker.emitted) >= 2
        /\ worker.emitted[Len(worker.emitted) - 1] = ErrorSig
        /\ LastEmitted(worker) =
               Finished2(worker.registered_count,
                         NumToProcess(worker) - worker.registered_count)
        /\ FinishedEmits(worker) = 1
        /\ Len(SigsOf(worker, {"progress"})) = worker.i
        /\ worker.registered_count + worker.errors = worker.i

C9_Witness ==
    /\ worker.kind = "reg" /\ worker.last = "fatal"
    /\ worker.registered_count = 1 /\ worker.errors = 1
    /\ NumToProcess(worker) = 4

\* C10 as stated: the progress signal of a target is emitted after the
\* target has been processed, so none exists for it while it is processed.
C10_ProgressAfterProcessing ==
    (worker.kind = "reg" /\ worker.pc = "process") =>
        \A p \in 1..Len(worker.emitted) :
            worker.emitted[p].sig = "progress" => worker.emitted[p].a <= worker.i

\* C10 amended: every target whose processing starts has exactly one progress
\* signal, emitted before the target is processed (before its result signals
\* and before its error is counted); the positions are 1, 2, 3, ... in
\* order, the total is the number of requested targets and the name is the
\* target's.
C10_ProgressBeforeProcessing ==
    worker.kind = "reg" =>
        LET prog == SigsOf(worker, {"progress"})
            started == worker.i + (IF worker.pc = "process" THEN 1 ELSE 0)
        IN  /\ Len(prog) = started
            /\ \A j \in 1..Len(prog) :
                 /\ prog[j].a = j
                 /\ prog[j].b = NumToProcess(worker)
                 /\ prog[j].name =
                       worker.image_data_list[worker.indices_to_register[j]].name
            /\ \A q \in 1..Len(worker.emitted) :
                 worker.emitted[q].sig \in {"image_updated", "rotation_updated"} =>
                    LET before == SelectSeq(SubSeq(worker.emitted, 1, q),
                                            LAMBDA m : m.sig = "progress")
                    IN  /\ before # << >>
                        /\ worker.indices_to_register[before[Len(before)].a]
                               = worker.emitted[q].index
            /\ (worker.pc = "process" =>
                   /\ LastEmitted(worker).sig = "progress"
                   /\ worker.registered_count + worker.errors = worker.i)

C10_Witness ==
    /\ worker.kind = "reg" /\ worker.pc = "done"
    /\ Len(SigsOf(worker, {"progress"})) = 3
    /\ worker.registered_count = 2 /\ worker.errors = 1
    /\ Len(SigsOf(worker, {"image_updated"})) = 2

\* the indices carried by the result signals of a sequence of signals
ResultIndices(sigs) ==
    LET res == SelectSeq(sigs, LAMBDA m : m.sig \in {"image_updated", "rotation_updated"})
    IN  [k \in 1..Len(res) |-> res[k].index]

StrictlyAscending(seq) == \A a, b \in 1..Len(seq) : a < b => seq[a] < seq[b]
NonDescending(seq) == \A a, b \in 1..Len(seq) : a < b => seq[a] <= seq[b]

\* C11: a registration batch works on targets in strictly ascending index
\* order, each at most once and never on the reference: a batch is created
\* either for all indices other than the reference or for the current image
\* when it is not the reference; the loop position only advances; no
\* image_updated or rotation_updated, emitted or queued, carries the reference
\* index, their indices are targets in ascending order; and while the batch
\* runs the reference entry of the caller's list stays what it was.
C11_TargetsAscendingExcludingReference ==
    /\ [](worker.kind = "reg" =>
            /\ StrictlyAscending(worker.indices_to_register)
            /\ worker.ref_image_idx = ref_image_idx
            /\ \A k \in 1..NumToProcess(worker) :
                  /\ worker.indices_to_register[k] # ref_image_idx
                  /\ ValidIdx(worker.indices_to_register[k], worker.image_data_list)
            /\ \A k \in 1..Len(ResultIndices(worker.emitted)) :
                  /\ ResultIndices(worker.emitted)[k] # ref_image_idx
                  /\ \E j \in 1..worker.i :
                        worker.indices_to_register[j] = ResultIndices(worker.emitted)[k]
            /\ NonDescending(ResultIndices(worker.emitted))
            /\ \A k \in 1..Len(ResultIndices(inbox)) :
                  ResultIndices(inbox)[k] # ref_image_idx
            /\ image_data[ref_image_idx] = worker.image_data_list[ref_image_idx])
    /\ [][ (worker.kind # "reg" /\ worker'.kind = "reg") =>
              \/ worker'.indices_to_register
                    = Ascending((0..(Len0(image_data) - 1)) \ {ref_image_idx})
              \/ /\ worker'.indices_to_register = << current_image_idx >>
                 /\ current_image_idx # ref_image_idx ]_vars
    /\ [][ (worker.kind = "reg" /\ worker'.kind = "reg") =>
              /\ worker'.indices_to_register = worker.indices_to_register
              /\ worker'.i \in {worker.i, worker.i + 1} ]_vars

\* a batch over all images has reported results for two targets and the
\* reference entry is still the loaded one
C11_Witness ==
    /\ worker.kind = "reg"
    /\ NumToProcess(worker) >= 2
    /\ ref_image_idx = 1
    /\ ResultIndices(worker.emitted) = << 0, 2 >>
    /\ inbox = << >>
    /\ image_data[0].image # worker.image_data_list[0].image
    /\ image_data[1] = LoadedImages("more")[1]

\* C12 as stated: a start_morphing that reports the frame rate as invalid
\* returns without creating a MorphWorker.
C12_InvalidFpsNotStarted ==
    [][ (clicks' # clicks /\ msgbox' = "Invalid FPS") => worker' = worker ]_vars

\* C12: a morph batch never runs with an invalid frame rate: a MorphWorker
\* always has a frame rate of at least 2, and a start_morphing that reports
\* the frame rate as invalid and goes on creates a MorphWorker with the
\* default frame rate 5.
C12_InvalidFpsFallsBackToDefault ==
    /\ [](worker.kind = "morph" => worker.frame_rate >= 2)
    /\ [][ (clicks' # clicks /\ msgbox' = "Invalid FPS" /\ worker' # worker) =>
              /\ worker'.kind = "morph"
              /\ worker'.frame_rate = DefaultFps
              /\ worker'.image_data_list = image_data ]_vars

\* a morph batch started from an invalid frame rate text has written frames
C12_Witness ==
    /\ worker.kind = "morph"
    /\ msgbox = "Invalid FPS"
    /\ worker.frame_rate = DefaultFps
    /\ worker.generated_count > 0

\* a rectangle lies inside an image of shape (height, width)
RectInside(rect, shape) ==
    /\ 0 <= rect.x /\ 0 <= rect.y /\ rect.w > 0 /\ rect.h > 0
    /\ rect.x + rect.w <= shape[2] /\ rect.y + rect.h <= shape[1]

\* C13: a scan or scan_rot batch is started only with an anchor that lies
\* inside the reference image, an FFT batch is started with such an anchor or
\* with none, and no batch is ever started with an anchor that fails the
\* validation; a start refused for the anchor creates no worker, queues no
\* signal and changes no image.
C13_AnchorCheckedAtStart ==
    /\ [](worker.kind = "reg" =>
            /\ worker.reg_method \in {"scan", "scan_rot"} => worker.ref_anchor # None
            /\ worker.ref_anchor # None =>
                  RectInside(worker.anchor_details,
                             ShapeOf(worker.image_data_list[worker.ref_image_idx].image)))
    /\ [][ (worker.kind # "reg" /\ worker'.kind = "reg") =>
              /\ image_data' = image_data
              /\ worker'.reg_method = reg_method
              /\ IF anchor_rect_img_coords.set
                 THEN /\ RectInside(anchor_rect_img_coords,
                                    ShapeOf(image_data[ref_image_idx].image))
                      /\ worker'.ref_anchor # None
                      /\ worker'.anchor_details =
                            [x |-> anchor_rect_img_coords.x, y |-> anchor_rect_img_coords.y,
                             w |-> anchor_rect_img_coords.w, h |-> anchor_rect_img_coords.h]
                 ELSE /\ reg_method = "fft"
                      /\ worker'.ref_anchor = None ]_vars
    /\ [][ (clicks' # clicks /\ msgbox' \in {"Anchor Required", "Registration Error"}) =>
              /\ worker' = worker /\ worker_thread' = worker_thread
              /\ inbox' = inbox /\ image_data' = image_data
              /\ IF msgbox' = "Anchor Required"
                 THEN ~anchor_rect_img_coords.set /\ reg_method \in {"scan", "scan_rot"}
                 ELSE /\ anchor_rect_img_coords.set
                      /\ ~RectInside(anchor_rect_img_coords,
                                     ShapeOf(image_data[ref_image_idx].image)) ]_vars

\* a start was refused because the anchor kept from the former reference does
\* not fit the present one
C13_Witness ==
    /\ msgbox = "Registration Error"
    /\ clicks > 0
    /\ worker.kind = "none"
    /\ anchor_rect_img_coords.set
    /\ ~RectInside(anchor_rect_img_coords, ShapeOf(image_data[ref_image_idx].image))

\* C14: whenever an anchor is set, however it was set and also after a change
\* of reference, it lies inside the current reference image: 0 <= x, 0 <= y,
\* w > 0, h > 0, x + w <= width and y + h <= height.
C14_AnchorInsideReference ==
    anchor_rect_img_coords.set =>
        /\ ValidIdx(ref_image_idx, image_data)
        /\ RectInside(anchor_rect_img_coords, ShapeOf(image_data[ref_image_idx].image))

\* C15: when the target is the reference itself, _register_scan_ssd returns
\* the offset (0, 0), for every valid anchor and every step size from 1 on.
C15_IdenticalTargetZeroShift ==
    (calc.op = "scan" /\ calc.pc # "call" /\ calc.current_grey = calc.ref_grey) =>
        calc.result = [found |-> TRUE, dx |-> 0, dy |-> 0]

\* the offsets (dy, dx) of the scan grid whose patch lies inside the target
InBoundsOffsets(k) ==
    LET grid == { d \in (-scan_range_pixels)..scan_range_pixels :
                    (d + scan_range_pixels) % k.step_size = 0 }
        a == k.anchor_details
    IN  { c \in grid \X grid :
            /\ 0 <= a.y + c[1] /\ a.y + c[1] + a.h <= Rows(k.current_grey)
            /\ 0 <= a.x + c[2] /\ a.x + c[2] + a.w <= Cols(k.current_grey) }

\* the sum of squared differences between the reference patch and the target
\* patch at the offset c = (dy, dx)
OffsetSSD(k, c) ==
    LET a == k.anchor_details
    IN  SSD(Slice(k.current_grey, a.y + c[1], a.y + c[1] + a.h,
                  a.x + c[2], a.x + c[2] + a.w),
            RefAnchor(k.ref_grey, a))

\* (dy, dx) comes before (ey, ex) in scan order, or is the same offset
ScanOrderLeq(c, e) == c[1] < e[1] \/ (c[1] = e[1] /\ c[2] <= e[2])

\* C16: the offset _register_scan_ssd returns has the minimal sum of squared
\* differences among the offsets compared, and among several offsets with
\* that minimum it is the first in scan order: the smallest dy, then the
\* smallest dx.
C16_FirstMinimumInScanOrder ==
    (calc.op = "scan" /\ calc.pc # "call" /\ calc.result.found) =>
        LET best == << calc.result.dy, calc.result.dx >>
        IN  /\ best \in InBoundsOffsets(calc)
            /\ \A c \in InBoundsOffsets(calc) :
                  /\ OffsetSSD(calc, best) <= OffsetSSD(calc, c)
                  /\ OffsetSSD(calc, c) = OffsetSSD(calc, best) => ScanOrderLeq(best, c)

\* the estimator has returned from a scan in which a later offset ties with
\* the one returned, on a target that is not uniform
C16_Witness ==
    /\ calc.op = "scan" /\ calc.pc = "done" /\ calc.result.found
    /\ calc.current_grey = DotImage(2, 2)
    /\ calc.step_size = 1
    /\ \E c \in InBoundsOffsets(calc) :
          /\ c # << calc.result.dy, calc.result.dx >>
          /\ OffsetSSD(calc, c) = OffsetSSD(calc, << calc.result.dy, calc.result.dx >>)
    /\ \E c \in InBoundsOffsets(calc) : OffsetSSD(calc, c) > 0

\* C17: _register_scan_ssd compares only offsets whose patch lies inside the
\* target: what it returns is such an offset, and when there is none it
\* returns no solution, the worker counts the target as an error, counts it
\* not as registered and emits no image_updated for it.
C17_OnlyInBoundsCandidates ==
    (calc.op = "scan" /\ calc.pc # "call") =>
        /\ calc.result.found <=> InBoundsOffsets(calc) # {}
        /\ calc.result.found => << calc.result.dy, calc.result.dx >> \in InBoundsOffsets(calc)
        /\ (calc.pc = "done" /\ ~calc.result.found) =>
              /\ calc.errors = 1 /\ calc.registered_count = 0
              /\ calc.image_updated = << >>
        /\ (calc.pc = "done" /\ calc.result.found) =>
              /\ calc.errors = 0 /\ calc.registered_count = 1

\* a target smaller than the anchor was scanned with step 1: no offset is in
\* bounds and the target has been counted as an error
C17_Witness ==
    /\ calc.op = "scan" /\ calc.pc = "done"
    /\ calc.step_size = 1
    /\ InBoundsOffsets(calc) = {}
    /\ ~calc.result.found
    /\ calc.errors = 1

\* C18: when no candidate angle yields a patch of the reference patch's
\* shape, _register_scan_ssd_rot returns no solution: the worker counts the
\* target as an error, not as registered, and emits no rotation for it.
C18_NoSolutionWhenNothingCompared ==
    (/\ calc.op = "scan_rot" /\ calc.pc = "done"
     /\ ClippedShape(PixelShape(calc.current_grey), calc.anchor_details)
           # << calc.anchor_details.h, calc.anchor_details.w >>) =>
        /\ calc.errors = 1
        /\ calc.registered_count = 0
        /\ calc.rotation_updated = << >>


\* C19: for an image of width W and height H and an integer shift (dx, dy)
\* with |dx| < W and |dy| < H, the shifted image has the same size, its pixel
\* at (x, y) is the input pixel at (x - dx, y - dy) when that lies inside the
\* image and zero otherwise, and a shift other than (0, 0) replaces the buffer.
C19_ShiftedPixels ==
    (/\ calc.op = "shift" /\ calc.pc = "done"
     /\ Abs(calc.dx) < Cols(calc.image) /\ Abs(calc.dy) < Rows(calc.image)) =>
        LET out == BufferAfter(calc)
        IN  /\ PixelShape(out) = PixelShape(calc.image)
            /\ (calc.dx # 0 \/ calc.dy # 0) => calc.image_updated # << >>
            /\ \A y \in 1..Rows(out), x \in 1..Cols(out) :
                  out[y][x] =
                     IF /\ y - calc.dy \in 1..Rows(out)
                        /\ x - calc.dx \in 1..Cols(out)
                     THEN calc.image[y - calc.dy][x - calc.dx]
                     ELSE 0

\* the worker has shifted the image of distinct pixels diagonally: the
\* corner band and both edge bands are zero and the rest has moved
C19_Witness ==
    /\ calc.op = "shift" /\ calc.pc = "done" /\ calc.by = "worker"
    /\ calc.image = RampImage
    /\ calc.dx = 1 /\ calc.dy = -1
    /\ calc.image_updated # << >>
    /\ calc.image_updated[1][ImgH][1] = 0
    /\ calc.image_updated[1][1][1] = 0
    /\ calc.image_updated[1][ImgH][ImgW] = 0
    /\ calc.image_updated[1][1][2] = RampImage[2][1]

\* C20: a shift with |dx| >= width or |dy| >= height is rejected and leaves
\* the buffer as it is, for translate_image and for the shift of an estimator
\* in a batch alike: no buffer is stored and no image_updated is emitted.
C20_OversizedShiftRejected ==
    (/\ calc.op = "shift" /\ calc.pc = "done"
     /\ (Abs(calc.dx) >= Cols(calc.image) \/ Abs(calc.dy) >= Rows(calc.image))) =>
        /\ calc.image_updated = << >>
        /\ BufferAfter(calc) = calc.image

\* the run of a morph worker has ended without cancellation and without an
\* exception
MorphCompleted(w) ==
    /\ w.kind = "morph" /\ w.pc = "done"
    /\ ~w.is_cancelled
    /\ SigsOf(w, {"error"}) = << >>

\* the images of a morph worker all have one shape
OneShape(w) ==
    \A a, b \in DOMAIN w.image_data_list :
        ShapeOf(w.image_data_list[a].image) = ShapeOf(w.image_data_list[b].image)

\* C21: for N >= 1 images of one shape and a frame rate F >= 2, a morph run
\* that is neither cancelled nor stopped by an exception writes exactly
\* N + (N-1)*(F-1) frames, reports that number in finished, and numbers the
\* frames 0 .. count-1 in the order written.
C21_MorphFrameCount ==
    (/\ MorphCompleted(worker)
     /\ Len0(worker.image_data_list) >= 1 /\ worker.frame_rate >= 2
     /\ OneShape(worker)) =>
        LET N == Len0(worker.image_data_list)
            F == worker.frame_rate
        IN  /\ Len(worker.frames) = N + (N - 1) * (F - 1)
            /\ worker.generated_count = Len(worker.frames)
            /\ LastEmitted(worker) = Finished1(N + (N - 1) * (F - 1))
            /\ FinishedEmits(worker) = 1
            /\ \A k \in 1..Len(worker.frames) : worker.frames[k].index = k - 1

\* a run over three images of one shape at frame rate 3 has ended with 7 frames
C21_Witness ==
    /\ MorphCompleted(worker)
    /\ OneShape(worker)
    /\ Len0(worker.image_data_list) = 3 /\ worker.frame_rate = 3
    /\ Len(worker.frames) = 7
    /\ worker.frames[7].index = 6

\* the frame holds an interpolation of the pair (j, j + 1) of a morph worker
InterpOfPair(w, frame, j) ==
    /\ Len(frame.image) = 1
    /\ frame.image[1][1] = "interp"
    /\ frame.image[1][2] = w.image_data_list[j].image
    /\ frame.image[1][3] = w.image_data_list[j + 1].image

\* the positions in frames of the frames that hold the image of entry j
FramesOfImage(w, j) ==
    { k \in 1..Len(w.frames) : w.frames[k].image = w.image_data_list[j].image }

\* C22: for every pair (imgA, imgB) of consecutive images with different
\* shapes that a morph run has gone past, no interpolated frame of the pair
\* is written and imgB is written exactly once, as the frame right after
\* imgA; the step that writes it emits a progress signal and no error, and
\* the run goes on with the next pair.
C22_ShapeMismatchPair ==
    /\ [](worker.kind = "morph" =>
            \A j \in 0..(worker.idx - 1) :
               ShapeOf(worker.image_data_list[j].image)
                     # ShapeOf(worker.image_data_list[j + 1].image) =>
                  /\ \A k \in 1..Len(worker.frames) :
                        ~InterpOfPair(worker, worker.frames[k], j)
                  /\ Cardinality(FramesOfImage(worker, j + 1)) = 1
                  /\ \E k \in FramesOfImage(worker, j) :
                        k + 1 \in FramesOfImage(worker, j + 1))
    /\ [][ (/\ worker.kind = "morph" /\ worker.pc = "pair"
            /\ worker.idx < Len0(worker.image_data_list) - 1
            /\ ShapeOf(worker.image_data_list[worker.idx].image)
                  # ShapeOf(worker.image_data_list[worker.idx + 1].image)
            /\ worker'.frames # worker.frames) =>
              /\ worker'.frames = Append(worker.frames,
                    [index |-> worker.counter,
                     image |-> worker.image_data_list[worker.idx + 1].image])
              /\ worker'.pc = "pair" /\ worker'.idx = worker.idx + 1
              /\ Len(worker'.emitted) = Len(worker.emitted) + 1
              /\ LastEmitted(worker').sig = "progress" ]_vars

\* a run over three images, the middle one of another shape, has ended with
\* the three images as its only frames
C22_Witness ==
    /\ MorphCompleted(worker)
    /\ Len0(worker.image_data_list) = 3
    /\ ShapeOf(worker.image_data_list[0].image) # ShapeOf(worker.image_data_list[1].image)
    /\ ShapeOf(worker.image_data_list[1].image) # ShapeOf(worker.image_data_list[2].image)
    /\ Len(worker.frames) = 3
    /\ \A k \in 1..3 : worker.frames[k].image = worker.image_data_list[k - 1].image

(* ------------------------- C23: one reference --------------------------- *)
\* C23: whenever the image list is not empty, exactly one of its items is
\* checked and the row of that item is ref_image_idx
C23_ExactlyOneReference ==
    Len0(image_data) > 0 =>
        /\ Cardinality(checked) = 1
        /\ ref_image_idx \in checked
        /\ ValidIdx(ref_image_idx, image_data)

\* the box of the second row was checked, and a registration batch has since
\* replaced an image of the list
C23_Witness ==
    /\ Len0(image_data) >= 2
    /\ ref_image_idx = 1
    /\ checked = {1}
    /\ \E k \in DOMAIN image_data : Len(image_data[k].image) > 1
    /\ worker.kind = "reg"

(* ------------------- C24: rotation from two points ---------------------- *)
\* a point set that does not hold exactly two points, or two equal points
InvalidPointInput ==
    \/ Len(ref_points) # 2
    \/ Len(current_points) # 2
    \/ ref_points[1] = ref_points[2]
    \/ current_points[1] = current_points[2]

\* C24: btn_get_rotation on point sets that are incomplete or hold a vector
\* of length zero reports an input error and leaves the buffer and the
\* total_rotation of the current image as they are
C24_InvalidPointsChangeNothing ==
    [][ (InvalidPointInput
           /\ \E cv_ok \in BOOLEAN : calculate_rotation_from_points(cv_ok))
        => /\ msgbox' \in {"Not Enough Points", "Invalid Points"}
           /\ ValidIdx(current_image_idx, image_data) =>
                 /\ image_data'[current_image_idx].image
                        = image_data[current_image_idx].image
                 /\ image_data'[current_image_idx].total_rotation
                        = image_data[current_image_idx].total_rotation ]_vars

\* two complete point sets, one of them a point picked twice, were refused
\* on an image that had been rotated before
C24_Witness ==
    /\ msgbox = "Invalid Points"
    /\ Len(ref_points) = 2 /\ Len(current_points) = 2
    /\ ValidIdx(current_image_idx, image_data)
    /\ image_data[current_image_idx].total_rotation # 0
    /\ Len(image_data[current_image_idx].image) > 1

(* ---------------- C25: points and the image they are on ---------------- *)
\* C25: a step that changes ref_image_idx leaves both point sets empty, and a
\* step that changes current_image_idx leaves the target point set empty
C25_PointsClearedOnIndexChange ==
    [][ /\ ref_image_idx' # ref_image_idx =>
               ref_points' = << >> /\ current_points' = << >>
        /\ current_image_idx' # current_image_idx =>
               current_points' = << >> ]_vars

(* ------------------- C26: the grid of the scan ------------------------- *)
\* C26: for every step size from 1 on, the offset _register_scan_ssd returns
\* is one of -15, -15 + step, ... up to and including +15 in both directions,
\* its patch lies inside the target, and no offset of that grid whose patch
\* lies inside the target has a smaller sum of squared differences
C26_MinimumOverScanGrid ==
    (calc.op = "scan" /\ calc.pc # "call" /\ calc.result.found) =>
        LET best == << calc.result.dy, calc.result.dx >>
        IN  /\ \A d \in {best[1], best[2]} :
                  /\ -scan_range_pixels <= d /\ d <= scan_range_pixels
                  /\ (d + scan_range_pixels) % calc.step_size = 0
            /\ best \in InBoundsOffsets(calc)
            /\ \A c \in InBoundsOffsets(calc) :
                  OffsetSSD(calc, best) <= OffsetSSD(calc, c)

\* the estimator has returned the last offset of the grid, +15, on a target
\* where every other offset compared is worse
C26_Witness ==
    /\ calc.op = "scan" /\ calc.pc # "call" /\ calc.result.found
    /\ calc.result.dx = scan_range_pixels
    /\ calc.result.dy = 0
    /\ \A c \in InBoundsOffsets(calc) \ { << 0, scan_range_pixels >> } :
          OffsetSSD(calc, c) > OffsetSSD(calc, << 0, scan_range_pixels >>)
    /\ Cardinality(InBoundsOffsets(calc)) > 1

(* --------------- C27: the correction undoes the offset ----------------- *)
\* the anchor rectangle cut out of an image
AnchorPatch(img, a) == Slice(img, a.y, a.y + a.h, a.x, a.x + a.w)

\* the target as the session holds it after the worker is done with it
CorrectedTarget(k) ==
    IF k.image_updated = << >> THEN k.current_grey ELSE k.image_updated[1]

\* C27: after the scan estimator returned (dx, dy) and the worker applied its
\* correction, the anchor rectangle of the corrected image holds the target
\* pixels that were at (anchor.x + dx, anchor.y + dy), none of them zeroed or
\* wrapped around, and its sum of squared differences against the reference
\* patch is the minimum the scan found
C27_CorrectionAlignsAnchor ==
    (calc.op = "scan" /\ calc.pc = "done" /\ calc.result.found) =>
        LET a == calc.anchor_details
            best == << calc.result.dy, calc.result.dx >>
            corrected == CorrectedTarget(calc)
        IN  /\ AnchorPatch(corrected, a)
                 = Slice(calc.current_grey, a.y + best[1], a.y + best[1] + a.h,
                         a.x + best[2], a.x + best[2] + a.w)
            /\ SSD(AnchorPatch(corrected, a), RefAnchor(calc.ref_grey, a))
                 = OffsetSSD(calc, best)
            /\ \A c \in InBoundsOffsets(calc) :
                  SSD(AnchorPatch(corrected, a), RefAnchor(calc.ref_grey, a))
                      <= OffsetSSD(calc, c)

(* ------------------ C28: a shift and its inverse ----------------------- *)
\* the indices (from 1) of the band a shift by n zeroes on an axis of length
\* len: the first n for n > 0, the last -n for n < 0
FillBand(n, len) ==
    { i \in 1..len : (n > 0 /\ i <= n) \/ (n < 0 /\ i > len + n) }

\* the buffer after the shift and the inverse shift
RoundTrip(k) == IF k.restored = << >> THEN BufferAfter(k) ELSE k.restored[1]

\* C28: after a shift by (dx, dy) with |dx| < width and |dy| < height and the
\* inverse shift, every pixel outside the bands either shift zeroed has its
\* original value, and a pixel that differs from the original lies in one of
\* those bands and is zero
C28_ShiftRoundTrip ==
    (/\ calc.op = "shift" /\ calc.pc = "back"
     /\ Abs(calc.dx) < Cols(calc.image) /\ Abs(calc.dy) < Rows(calc.image)) =>
        LET out == RoundTrip(calc)
            rows == FillBand(calc.dy, Rows(calc.image))
                       \cup FillBand(-calc.dy, Rows(calc.image))
            cols == FillBand(calc.dx, Cols(calc.image))
                       \cup FillBand(-calc.dx, Cols(calc.image))
        IN  /\ PixelShape(out) = PixelShape(calc.image)
            /\ \A y \in 1..Rows(out), x \in 1..Cols(out) :
                  /\ (y \notin rows /\ x \notin cols) => out[y][x] = calc.image[y][x]
                  /\ out[y][x] # calc.image[y][x] =>
                        (y \in rows \/ x \in cols) /\ out[y][x] = 0

\* the image of distinct pixels went one pixel right and one up and back
\* again: a pixel outside the bands is restored, a pixel of the band of the
\* inverse shift is zero, and a pixel of the band of the first shift is back
C28_Witness ==
    /\ calc.op = "shift" /\ calc.pc = "back" /\ calc.by = "worker"
    /\ calc.image = RampImage
    /\ calc.dx = 1 /\ calc.dy = -1
    /\ calc.restored # << >>
    /\ calc.restored[1][2][2] = RampImage[2][2]
    /\ calc.restored[1][1][ImgW] = 0
    /\ calc.restored[1][ImgH][1] = RampImage[ImgH][1]

(* ---------------------- C29: the order of frames ----------------------- *)
\* the interpolated frames of the pair (j, j + 1) from step i on: weights
\* (i + 1) / F up to (F - 1) / F
RECURSIVE InterpFrames(_, _, _)
InterpFrames(w, j, i) ==
    IF i > w.frame_rate - 2 THEN << >>
    ELSE << << <<"interp", w.image_data_list[j].image,
                 w.image_data_list[j + 1].image,
                 << i + 1, w.frame_rate >> >> >> >>
         \o InterpFrames(w, j, i + 1)

\* the frames of the pairs from (j, j + 1) on: the interpolated frames of a
\* pair of one shape, then the second image as it is
RECURSIVE PairFrames(_, _)
PairFrames(w, j) ==
    IF j >= Len0(w.image_data_list) - 1 THEN << >>
    ELSE (IF ShapeOf(w.image_data_list[j].image)
               = ShapeOf(w.image_data_list[j + 1].image)
          THEN InterpFrames(w, j, 0) ELSE << >>)
         \o << w.image_data_list[j + 1].image >>
         \o PairFrames(w, j + 1)

\* the frames of a whole run: the first image, then the frames of the pairs
FrameOrder(w) == << w.image_data_list[0].image >> \o PairFrames(w, 0)

\* C29: the frames of a morph run are, in the order written, the first image,
\* then for each pair of consecutive images of one shape the F - 1 frames
\* interpolated with the weights 1/F, 2/F, ... (F-1)/F, then the second image
\* of the pair unchanged; a run in progress has written a prefix of that
\* order and a completed run all of it
C29_FramesInOrder ==
    (worker.kind = "morph" /\ Len0(worker.image_data_list) >= 1) =>
        /\ Len(worker.frames) <= Len(FrameOrder(worker))
        /\ \A k \in 1..Len(worker.frames) :
              worker.frames[k].image = FrameOrder(worker)[k]
        /\ MorphCompleted(worker) =>
              Len(worker.frames) = Len(FrameOrder(worker))

\* a run over two images of one shape at frame rate 3 has ended: the frames
\* are the first image, the weights 1/3 and 2/3, and the second image
C29_Witness ==
    /\ MorphCompleted(worker)
    /\ Len0(worker.image_data_list) = 2 /\ worker.frame_rate = 3
    /\ OneShape(worker)
    /\ Len(worker.frames) = 4
    /\ worker.frames[1].image = worker.image_data_list[0].image
    /\ worker.frames[2].image[1][4] = << 1, 3 >>
    /\ worker.frames[3].image[1][4] = << 2, 3 >>
    /\ worker.frames[4].image = worker.image_data_list[1].image

(* ----------------------- C30: a morph run cancelled -------------------- *)
\* the places of MorphWorker.run where the flag is looked at next: the top
\* of the pair loop, the top of an interpolation step, after the
\* interpolation loop; or the run is past them
AtOrPastPoll(w) == w.pc \in {"pair", "interp", "after", "finish", "done"}

\* C30: once the flag of a morph worker is set, the next poll ends the loops:
\* no frame is written from there on, the frames written stay as they are
\* with the indices 0, 1, 2, ... and finished carries their number
C30_MorphCancel ==
    /\ []((worker.kind = "morph" /\ worker.is_cancelled) =>
            /\ \A k \in 1..Len(worker.frames) : worker.frames[k].index = k - 1
            /\ worker.generated_count = Len(worker.frames)
            /\ (worker.pc = "done" /\ SigsOf(worker, {"error"}) = << >>) =>
                  /\ FinishedEmits(worker) = 1
                  /\ LastEmitted(worker) = Finished1(Len(worker.frames)))
    /\ [][ (worker.kind = "morph" /\ worker.is_cancelled /\ AtOrPastPoll(worker)) =>
              /\ worker'.frames = worker.frames
              /\ worker.pc = "pair" => worker'.pc \in {"pair", "finish"}
              /\ worker.pc = "interp" => worker'.pc \in {"interp", "after"}
              /\ worker.pc = "after" => worker'.pc \in {"after", "finish"}
              /\ worker.pc = "finish" => worker'.pc \in {"finish", "done"} ]_vars

\* a run cancelled between two interpolation steps has ended: it wrote more
\* than the first frame, fewer frames than the whole order, and reported them
C30_Witness ==
    /\ worker.kind = "morph" /\ worker.pc = "done" /\ worker.is_cancelled
    /\ SigsOf(worker, {"error"}) = << >>
    /\ Len(worker.frames) > 1
    /\ Len(worker.frames) < Len(FrameOrder(worker))
    /\ Len(worker.frames[Len(worker.frames)].image) = 1
    /\ LastEmitted(worker) = Finished1(Len(worker.frames))

IterationsCompleted(w) ==
    Len(SigsOf(w, {"progress"})) - (IF w.pc = "process" THEN 1 ELSE 0)

\* C32: at every point of a registration batch registered_count + errors is
\* the number of target iterations completed, every completed iteration
\* adds exactly one to exactly one of the two counters, and a run that ends
\* neither cancelled nor by a fatal error reports counts whose sum is the
\* number of requested targets.
C32_CountersPartitionTargets ==
    /\ [](worker.kind = "reg" =>
            /\ (worker.last # "fatal" =>
                  worker.registered_count + worker.errors
                      = IterationsCompleted(worker))
            /\ ((/\ worker.pc = "done" /\ worker.last # "fatal"
                 /\ ~worker.is_cancelled) =>
                  /\ LastEmitted(worker).sig = "finished"
                  /\ LastEmitted(worker).a + LastEmitted(worker).b
                        = NumToProcess(worker)
                  /\ LastEmitted(worker).a = worker.registered_count
                  /\ LastEmitted(worker).b = worker.errors))
    /\ [][ (worker.kind = "reg" /\ worker.pc = "process" /\ worker'.pc # "process") =>
              \/ /\ worker'.registered_count = worker.registered_count + 1
                 /\ worker'.errors = worker.errors
              \/ /\ worker'.registered_count = worker.registered_count
                 /\ worker'.errors = worker.errors + 1 ]_vars

\* a run over three targets has ended, uncancelled, with two targets
\* registered and one counted as an error
C32_Witness ==
    /\ worker.kind = "reg" /\ worker.pc = "done" /\ worker.last # "fatal"
    /\ ~worker.is_cancelled
    /\ NumToProcess(worker) = 3
    /\ LastEmitted(worker) = Finished2(2, 1)

(* ------------------- C33: results of failed targets --------------------- *)
\* the signals of the given kinds that carry the index idx
ResultsFor(sigs, idx) ==
    SelectSeq(sigs, LAMBDA m : /\ m.sig \in {"image_updated", "rotation_updated"}
                               /\ m.index = idx)

\* C33: in a registration batch the step that counts a target as an error
\* emits nothing, a step that emits image_updated or rotation_updated counts
\* its target as registered and names that target only, rotation_updated
\* comes directly after image_updated for the same index, and the caller's
\* entry of an image for which no result was emitted is the entry the
\* batch was started with.
C33_ResultsOnlyForRegisteredTargets ==
    /\ [](worker.kind = "reg" =>
            /\ \A k \in 1..Len(worker.emitted) :
                  worker.emitted[k].sig = "rotation_updated" =>
                     /\ k > 1
                     /\ worker.emitted[k - 1].sig = "image_updated"
                     /\ worker.emitted[k - 1].index = worker.emitted[k].index
            /\ \A idx \in DOMAIN image_data :
                  ResultsFor(worker.emitted, idx) = << >> =>
                     /\ idx \in DOMAIN worker.image_data_list
                     /\ image_data[idx] = worker.image_data_list[idx])
    /\ [][ (worker.kind = "reg" /\ worker.pc = "process" /\ worker'.pc # "process") =>
              LET idx == worker.indices_to_register[worker.i + 1]
                  new == SubSeq(worker'.emitted, Len(worker.emitted) + 1,
                                Len(worker'.emitted))
              IN  /\ worker'.errors > worker.errors => new = << >>
                  /\ new # << >> =>
                        /\ worker'.registered_count = worker.registered_count + 1
                        /\ \A k \in 1..Len(new) :
                              /\ new[k].sig \in {"image_updated", "rotation_updated"}
                              /\ new[k].index = idx ]_vars

\* a batch of two targets has ended: the first was rotated and its results
\* have reached the caller, the second failed in the rotation and the
\* caller's entry for it is the one the batch was started with
C33_Witness ==
    /\ worker.kind = "reg" /\ worker.pc = "done"
    /\ NumToProcess(worker) = 2
    /\ worker.registered_count = 1 /\ worker.errors = 1
    /\ worker.last = "rotation failed"
    /\ \A k \in 1..Len(inbox) :
          inbox[k].sig \notin {"image_updated", "rotation_updated"}
    /\ LET first == worker.indices_to_register[1]
           second == worker.indices_to_register[2]
       IN  /\ Len(ResultsFor(worker.emitted, first)) = 2
           /\ image_data[first].total_rotation
                 # worker.image_data_list[first].total_rotation
           /\ image_data[second] = worker.image_data_list[second]

(* ---------------------- C34: the session cycle -------------------------- *)
\* no batch: worker and thread reset, dialog released, controls enabled
Idle ==
    /\ worker = NoWorker /\ worker_thread = None
    /\ progress_dialog = None
    /\ ui_enabled /\ ~IsBusy

\* the worker has emitted finished and run() has returned
WorkerFinished ==
    /\ worker.kind # "none"
    /\ worker.pc = "done"
    /\ FinishedEmits(worker) = 1

\* C34: the controls are disabled and a worker exists in every state in
\* which a worker thread runs, and from every such state, cancelled or
\* failed batches included, the worker eventually emits finished, the
\* thread then stops, and the caller returns to the idle state (worker and
\* thread reset, dialog released, controls enabled) from which a batch can
\* be started; whenever no thread exists the caller is in that state.
C34_IdleRunningIdle ==
    /\ [](ThreadRunning => (~ui_enabled /\ worker.kind # "none"))
    /\ [](worker_thread = "stopped" => (~ui_enabled /\ WorkerFinished))
    /\ [](worker_thread = None => Idle)
    /\ (ThreadRunning ~> WorkerFinished)
    /\ (ThreadRunning ~> (worker_thread = "stopped"))
    /\ (ThreadRunning ~> Idle)

\* the caller is idle again after a registration batch that was cancelled
\* or in which a target failed
C34_Witness ==
    /\ Idle
    /\ inbox = << >>
    /\ threads_running = 0
    /\ msgbox \in {"Registration Issues", "Registration Info"}

(* ----------------------- C35: bounded scans ----------------------------- *)
\* C35: the step size of every registration worker is an integer of at
\* least 1 whatever the shift box held, each of the two nested loops of the
\* scan over offsets with that step goes through at most 31 values, all
\* within the scan range (at most 31 x 31 offsets), the rotation scan goes
\* through a fixed grid of 51 angles, and the registration loop starts at
\* most one iteration per requested target.
C35_ScansAreBounded ==
    worker.kind = "reg" =>
        /\ worker.shift_val \in Nat /\ worker.shift_val >= 1
        /\ LET n == ScanRangeLen(worker.shift_val)
           IN  /\ n \in 1..(2 * scan_range_pixels + 1)
               /\ n * n <= 31 * 31
               /\ \A k \in 1..n :
                     Abs(ScanRangeAt(k, worker.shift_val)) <= scan_range_pixels
               /\ ScanRangeAt(n, worker.shift_val) + worker.shift_val
                     > scan_range_pixels
        /\ Cardinality(ScanAngles) = 51
        /\ \A a \in ScanAngles : Abs(a) <= scan_range_degrees
        /\ worker.i <= NumToProcess(worker)
        /\ LET started == SigsOf(worker, {"progress"})
           IN  /\ Len(started) <= NumToProcess(worker)
               /\ \A k \in 1..Len(started) : started[k].a = k

\* a scan batch over two targets with the step 1 (31 x 31 offsets) has run
\* to its end
C35_Witness ==
    /\ worker.kind = "reg" /\ worker.pc = "done"
    /\ worker.reg_method = "scan"
    /\ worker.shift_val = 1
    /\ ScanRangeLen(worker.shift_val) = 31
    /\ NumToProcess(worker) = 2 /\ worker.i = 2
    /\ Len(SigsOf(worker, {"progress"})) = 2

(* --------------------------- C36: FFT ----------------------------------- *)
\* s is the integer nearest to an offset of off tenths, the even one of two
NearestInteger(s, off) ==
    LET d == Abs(10 * s - off)
    IN  /\ d <= 5
        /\ (d = 5 => s % 2 = 0)

LastOp(buf) == buf[Len(buf)]

\* C37: a step that stores a shifted buffer for an image leaves the image's
\* image_orig and total_rotation as they are, and a step that stores a
\* rotated buffer stores the rotation of the image's image_orig by the new
\* angle, so that no shift made after image_orig was captured is part of it.
C37_RotationFromOriginalOnly ==
    [][ \A k \in DOMAIN image_data \cap DOMAIN image_data' :
          image_data'[k].image # image_data[k].image =>
             LET old == image_data[k]
                 new == image_data'[k]
             IN  /\ LastOp(new.image)[1] = "S" =>
                       /\ new.image_orig = old.image_orig
                       /\ new.total_rotation = old.total_rotation
                 /\ LastOp(new.image)[1] = "R" =>
                       /\ new.image_orig # NoOrig
                       /\ new.image = Rotated(new.image_orig, LastOp(new.image)[2]) ]_vars

(* --------------------- C38: the two point sets -------------------------- *)
\* C38: each of the two point sets holds at most two points at any time; a
\* step that adds a point to a set starts with the selection mode of that
\* set active and fewer than two points in it, and a step that adds the
\* second point of a set ends with the selection mode of that set left
C38_AtMostTwoPoints ==
    /\ [](Len(ref_points) <= 2 /\ Len(current_points) <= 2)
    /\ [][ /\ Len(ref_points') > Len(ref_points) =>
                /\ setting_ref_points
                /\ Len(ref_points) < 2
                /\ Len(ref_points') = Len(ref_points) + 1
                /\ Len(ref_points') = 2 => ~setting_ref_points'
           /\ Len(current_points') > Len(current_points) =>
                /\ setting_current_points
                /\ Len(current_points) < 2
                /\ Len(current_points') = Len(current_points) + 1
                /\ Len(current_points') = 2 => ~setting_current_points' ]_vars

\* two clicks on the reference label in "Set Ref Points" mode gave two points,
\* and the second one left the mode
C38_Witness ==
    /\ ref_points = << <<1, 0>>, <<1, 1>> >>
    /\ ~setting_ref_points
    /\ clicks = MaxClicks

(* -------------------- C39: the two-point solver ------------------------- *)
\* two points on each label, no vector of length zero, and a current image
ValidPointInput ==
    /\ Len(ref_points) = 2
    /\ Len(current_points) = 2
    /\ ref_points[1] # ref_points[2]
    /\ current_points[1] # current_points[2]
    /\ ValidIdx(current_image_idx, image_data)

\* angle_ref - angle_target of the picked points, in hundredths of a degree
PointsDelta ==
    Atan2Deg(ref_points[2][2] - ref_points[1][2],
             ref_points[2][1] - ref_points[1][1])
      - Atan2Deg(current_points[2][2] - current_points[1][2],
                 current_points[2][1] - current_points[1][1])

\* C39 as stated: on valid input, with OpenCV performing the rotation,
\* btn_get_rotation sets the total_rotation of the current image to its
\* previous total_rotation plus angle_ref - angle_target, and the buffer of the
\* image becomes its image_orig rotated by that total (an unrotated image_orig
\* counts as rotated by 0)
C39_TotalIsPreviousPlusDelta ==
    [][ (ValidPointInput /\ calculate_rotation_from_points(TRUE)) =>
          LET old == image_data[current_image_idx]
              new == image_data'[current_image_idx]
          IN  /\ new.total_rotation = old.total_rotation + PointsDelta
              /\ new.image_orig # NoOrig
              /\ \/ new.image = Rotated(new.image_orig, new.total_rotation)
                 \/ new.total_rotation = 0 /\ new.image = new.image_orig ]_vars

\* C39: on valid input, with OpenCV performing the rotation, btn_get_rotation
\* keeps the image_orig of the current image, or captures it from the buffer
\* if there is none, and the new total_rotation is the previous total_rotation
\* plus angle_ref - angle_target rounded to a tenth of a degree; if that is
\* the previous total_rotation the buffer stays as it is, otherwise the
\* buffer becomes image_orig rotated by the new total_rotation
C39_RoundedTotalFromOriginal ==
    [][ (ValidPointInput /\ calculate_rotation_from_points(TRUE)) =>
          LET old == image_data[current_image_idx]
              new == image_data'[current_image_idx]
              exact == old.total_rotation + PointsDelta
              orig == IF old.image_orig = NoOrig THEN old.image
                      ELSE old.image_orig
          IN  /\ new.image_orig = orig
              /\ new.total_rotation % 10 = 0
              /\ 2 * Abs(new.total_rotation - exact) <= 10
              /\ IF new.total_rotation = old.total_rotation
                 THEN new.image = old.image
                 ELSE new.image = Rotated(orig, new.total_rotation) ]_vars

\* an image rotated by 0.3 degrees was rotated on by the 26.57 degrees of two
\* point pairs: its total_rotation is 26.9 and its buffer is one rotation of
\* the buffer read from the file
C39_Witness ==
    /\ ValidPointInput
    /\ PointsDelta = 2657
    /\ image_data[current_image_idx].total_rotation = 2690
    /\ image_data[current_image_idx].image_orig = Pristine(current_image_idx)
    /\ image_data[current_image_idx].image
           = Rotated(Pristine(current_image_idx), 2690)
====
